---- MODULE Spec2Model ----
(***************************************************************************)
(* PipeJS: the pipeline executor (src/core/executor.ts).                   *)
(*                                                                         *)
(* One PipelineExecutor runs one executePipeline call.  The JavaScript     *)
(* event loop is modelled by two kinds of steps: continuations that run in *)
(* the microtask queue (promise reactions: the wrapper's await, the        *)
(* waiter's Promise.race, Promise.all, the await of loadPlugin) and        *)
(* events delivered by the macrotask queue (a plugin's call completing, a  *)
(* setTimeout firing, a State Store write completing).  A macrotask is     *)
(* delivered only when no microtask is runnable.                           *)
(***************************************************************************)
EXTENDS Integers, Sequences, FiniteSets, TLC

\* ------------------------------------------------------------------ bounds

\* Most tasks a pipeline handed to executePipeline has.
NumTasks == 3
\* Largest retry.attempts a task declares.
MaxAttempts == 3
\* Largest maxConcurrency the executor is constructed with explicitly.
MaxConcurrency == 2
\* Most tasks of a pipeline that are disabled or declare a retry or a timeout.
MaxSpecial == 1

\* Most job ids uuidv4() hands out.
MaxJobs == 3
\* Most pipelines given to schedulePipeline by its callers.
MaxScheduled == 2
\* Most executePipeline calls one job has in progress.
MaxRuns == 2

\* Clients that use the State Store at the same time.
MaxClients == 2
\* Most operations started on one backend of the State Store.
MaxStoreOps == 3
\* Most run ids handed to savePipelineRun.
MaxStoredRuns == 2
\* Tasks of a stored run.
MaxStoredTasks == 2
\* Latest day a stored run started on.
MaxDay == 2

\* Most tasks of a document given to parse.
MaxDocTasks == 3
\* Most entries of a dependsOn array of such a document.
MaxDeps == 1
\* Most tasks of such a document that are rejected by themselves.
MaxMalformed == 1

\* executor.ts: maxConcurrency: options.maxConcurrency || 5
DefaultMaxConcurrency == 5

VARIABLES
    options,      \* PipelineExecutor.options
    pipeline,     \* the Pipeline given to executePipeline: its tasks, by position
    pc,           \* where executePipeline is
    runStatus,    \* run.status
    runError,     \* run.error ("" when unset)
    runTasks,     \* run.tasks: per task [status, attempts, result, startedAt, completedAt]
    executed,     \* executeTasks: the local set `executed`
    batch,        \* executeTasks: the executableTasks being awaited by Promise.all
    wrapper,      \* per task, where its executeTaskWithConcurrency call is
    waitOn,       \* per task, the promises its waitForSlot races (ids of their tasks)
    promise,      \* per task, the state of the executeTask promise its wrapper holds
    active,       \* PipelineExecutor.activeExecutions (its keys)
    invocation,   \* per task, where the live executeTask call is
    orphans,      \* per task, plugin.execute calls still in flight whose timeout fired
    retryTimer,   \* per task, whether a retry setTimeout is armed
    context,      \* per task, the keys of previousResults in the ExecutionContext
                  \* of its latest plugin.execute call
    stored,       \* the State Store: writes of the run so far and the last record
    cancelRequested, \* whether cancelExecution was called for the run
    \* PipelineScheduler (src/cli/commands/validate.ts)
    isRunning,    \* PipelineScheduler.isRunning
    jobs,         \* PipelineScheduler.jobs: job id -> its pipeline and CronJob.running
    jobStore,     \* State Store: the SchedulerJob under each scheduler:job:<id> key
    nextJobId,    \* the next id uuidv4() gives
    entries,      \* the ids schedulePipeline returned to its callers
    starting,     \* the start() call in progress: where it is, the keys it still loads
    firedRuns,    \* per job id, its executePipeline calls in progress
    cleanupRunning, \* whether the housekeeping job (cleanupJob) has its timer armed
    stopped,      \* a stop() call has returned and start() was not called since
    unscheduled,  \* the ids for which unschedulePipeline returned true
    failedRuns,   \* the job ids with a fired run that ended failed or threw
    \* State Store, file backend (state.ts, FileStateManager)
    fileDoc,      \* the JSON document on disk
    fileOps,      \* per client, its store operation in progress and its locals
    fileCalls,    \* number of operations started on the file backend
    lastSet,      \* per key, the latest completed mutation: set or delete
    lastSaved,    \* per run id, the run of the latest completed savePipelineRun
    \* State Store, SQLite backend (state.ts, SQLiteStateManager)
    runsTable,    \* the rows of the runs table, by primary key id
    tasksTable,   \* the rows of the tasks table, in rowid order
    sqlOps,       \* per client, its store operation in progress and its locals
    sqlCalls,     \* number of operations started on the SQLite backend
    sqlSaved,     \* per run id, the run of the latest completed savePipelineRun
    \* Parser (parser.ts)
    parserOptions, \* the options of the parser
    document,     \* the pipeline mapping of the document handed to parse
    parsed,       \* what parse did with it
    reparsed      \* what parse did with the serialization of the returned pipeline

execVars == <<options, pipeline, pc, runStatus, runError, runTasks, executed, batch,
              wrapper, waitOn, promise, active, invocation, orphans, retryTimer,
              context, stored, cancelRequested>>

schedVars == <<isRunning, jobs, jobStore, nextJobId, entries, starting, firedRuns,
               cleanupRunning, stopped, unscheduled, failedRuns>>

fileVars == <<fileDoc, fileOps, fileCalls, lastSet, lastSaved>>

sqlVars == <<runsTable, tasksTable, sqlOps, sqlCalls, sqlSaved>>

storeVars == <<fileVars, sqlVars>>

parseVars == <<parserOptions, document, parsed, reparsed>>

vars == <<execVars, schedVars, storeVars, parseVars>>

\* ------------------------------------------------------------------ data

Tasks == 1 .. Len(pipeline.tasks)

NoResult == [success |-> FALSE, error |-> "none"]
SuccessResult == [success |-> TRUE, error |-> ""]
ErrorResult(msg) == [success |-> FALSE, error |-> msg]

ErrFailed == "Task execution failed"
ErrThrown == "plugin threw"
ErrTimeout == "Task execution timed out"
ErrNotFound == "Plugin not found"
ErrDeadlock == "Pipeline deadlock - circular dependencies detected"

\* A task of the pipeline: retry = 0 and timeout = 0 stand for an absent field.
TaskOf(deps, en, re, to) ==
    [dependsOn |-> deps, enabled |-> en, retry |-> re, timeout |-> to]

\* executor.ts constructor
MakeOptions(maxConcurrency, timeout, continueOnError) ==
    [maxConcurrency |-> IF maxConcurrency # 0 THEN maxConcurrency
                        ELSE DefaultMaxConcurrency,
     timeout |-> timeout,
     continueOnError |-> continueOnError]

\* executeTask: const taskTimeout = task.timeout || this.options.timeout
TaskTimeout(t) ==
    IF pipeline.tasks[t].timeout # 0 THEN pipeline.tasks[t].timeout
    ELSE options.timeout

\* executePipeline: pipeline.tasks.map(task => ({task, status: 'pending', attempts: 0}))
NewTaskExecution ==
    [status |-> "pending", attempts |-> 0, result |-> NoResult,
     startedAt |-> FALSE, completedAt |-> FALSE]

\* executeTask: the ExecutionContext given to plugin.execute, as far as its
\* previousResults goes: `previousResults: new Map()`
NoContext == [called |-> FALSE, previousResults |-> {}]
NewContext == [called |-> TRUE, previousResults |-> {}]

\* state.ts FileStateManager: what JSON.stringify reads of the run when the
\* pipeline_runs key is written
NothingStored == [writes |-> 0, status |-> "none", error |-> "", tasks |-> << >>]
RunRecord(n, st, err, ts) ==
    [writes |-> n, status |-> st, error |-> err,
     tasks |-> [t \in DOMAIN ts |-> ts[t].status]]

\* ------------------------------------------------------------------ inputs

\* Dependency graphs over the task positions 1..n: no dependencies, a chain,
\* one root fanning out, and all tasks fanning in to the last one; and, for
\* pipelines that bypassed validation, a cycle behind a free first task (the
\* only task depends on itself when n = 1) and a last task that depends on an
\* id no task has.
FlatDeps(n) == [t \in 1 .. n |-> {}]
ChainDeps(n) == [t \in 1 .. n |-> IF t = 1 THEN {} ELSE {t - 1}]
FanOutDeps(n) == [t \in 1 .. n |-> IF t = 1 THEN {} ELSE {1}]
FanInDeps(n) == [t \in 1 .. n |-> IF t = n THEN 1 .. (n - 1) ELSE {}]

CycleDeps(n) ==
    [t \in 1 .. n |-> IF n = 1 THEN {1}
                      ELSE IF t = 1 THEN {}
                      ELSE IF t = n THEN {2}
                      ELSE {t + 1}]
DanglingDeps(n) == [t \in 1 .. n |-> IF t = n THEN {n + 1} ELSE {}]

Graphs(n) ==
    {FlatDeps(n), ChainDeps(n), FanOutDeps(n), FanInDeps(n), CycleDeps(n),
     DanglingDeps(n)}

\* What a task declares besides its dependencies: enabled, retry.attempts
\* (0: no retry block) and timeout (0: none).  A disabled task's retry and
\* timeout are never read.
PlainAttrs == [enabled |-> TRUE, retry |-> 0, timeout |-> 0]

TaskAttrs ==
    { [enabled |-> TRUE, retry |-> re, timeout |-> to] :
        re \in 0 .. MaxAttempts, to \in {0, 1} }
    \cup { [enabled |-> FALSE, retry |-> 0, timeout |-> 0] }

\* The pipelines handed to executePipeline: up to NumTasks tasks, of which at
\* most MaxSpecial are disabled or declare a retry or a timeout.
Pipelines ==
    UNION { { [tasks |-> [t \in 1 .. n |->
                            TaskOf(g[t], a[t].enabled, a[t].retry, a[t].timeout)]] :
                g \in Graphs(n),
                a \in { f \in [1 .. n -> TaskAttrs] :
                          Cardinality({t \in 1 .. n : f[t] # PlainAttrs})
                            <= MaxSpecial } } :
            n \in 0 .. NumTasks }

EmptyPipeline == [tasks |-> << >>]

\* ------------------------------------------------------------------ executor

\* Mutant of DependencySatisfied: any terminal status of the dependency counts
DependencySatisfiedWhenTerminal(ts, depId) ==
    /\ depId \in DOMAIN ts
    /\ ts[depId].status \in {"success", "skipped", "failed"}

\* Mutant of DependencySatisfied: only a successful dependency counts
DependencySatisfiedOnlySuccess(ts, depId) ==
    /\ depId \in DOMAIN ts
    /\ ts[depId].status = "success"

\* executor.ts getExecutableTasks: dep && (dep.status is success or skipped)
DependencySatisfied(ts, depId) ==
    /\ depId \in DOMAIN ts
    /\ ts[depId].status \in {"success", "skipped"}

GetExecutableTasks(ts, ex) ==
    { t \in DOMAIN ts :
        /\ t \notin ex
        /\ ts[t].status = "pending"
        /\ \A depId \in pipeline.tasks[t].dependsOn : DependencySatisfied(ts, depId) }

\* executor.ts executePipeline, the status assigned after executeTasks returned
CompletionStatus(ts) ==
    IF \E t \in DOMAIN ts : ts[t].status = "running" THEN "running"
    ELSE IF \E t \in DOMAIN ts : ts[t].status = "failed" THEN "failed"
    ELSE IF \A t \in DOMAIN ts : ts[t].status = "skipped" THEN "cancelled"
    ELSE "success"

\* executor.ts executeTask, up to its first await: what it does to the TaskExecution
BeginTask(ts, t) ==
    IF ~pipeline.tasks[t].enabled
    THEN [ts EXCEPT ![t].status = "skipped"]
    ELSE [ts EXCEPT ![t].startedAt = TRUE,
                    ![t].status = "running",
                    ![t].attempts = @ + 1]

\* executor.ts executeTaskWithConcurrency: the call of executeTask and
\* activeExecutions.set.  A disabled task's executeTask returns at once.
StartWrapped(st, t) ==
    [st EXCEPT !.tasks = BeginTask(st.tasks, t),
               !.invocation[t] = IF pipeline.tasks[t].enabled THEN "load" ELSE "none",
               !.promise[t] = IF pipeline.tasks[t].enabled THEN "pending" ELSE "resolved",
               !.active = @ \cup {t},
               !.wrapper[t] = "exec"]

\* executor.ts executeTaskWithConcurrency: if (activeExecutions.size >= maxConcurrency)
MustWaitForSlot(act) == Cardinality(act) >= options.maxConcurrency

\* executor.ts executeTaskWithConcurrency, up to its first await.  waitForSlot
\* races the promises that are in activeExecutions when it is called.
ExecuteTaskWithConcurrency(st, t) ==
    IF MustWaitForSlot(st.active) /\ st.active # {}
    THEN [st EXCEPT !.wrapper[t] = "wait", !.waitOn[t] = st.active]
    ELSE StartWrapped(st, t)

Min(S) == CHOOSE x \in S : \A y \in S : x <= y

\* executor.ts executeTasks: executableTasks.map(...), in array order
RECURSIVE DispatchAll(_, _)
DispatchAll(st, ts) ==
    IF ts = {} THEN st
    ELSE DispatchAll(ExecuteTaskWithConcurrency(st, Min(ts)), ts \ {Min(ts)})

ExecutorState ==
    [tasks |-> runTasks, wrapper |-> wrapper, waitOn |-> waitOn,
     promise |-> promise, active |-> active, invocation |-> invocation]

Settled(p) == promise[p] \in {"resolved", "rejected"}

\* A promise reaction is queued: the event loop runs it before any macrotask.
MicrotaskRunnable ==
    \/ pc = "loop"
    \/ /\ pc = "awaitAll"
       /\ \/ \E t \in batch : wrapper[t] = "rejected"
          \/ \A t \in batch : wrapper[t] = "resolved"
    \/ \E t \in Tasks :
        \/ wrapper[t] = "exec" /\ Settled(t)
        \/ wrapper[t] = "wait" /\ \E p \in waitOn[t] : Settled(p)
        \/ invocation[t] = "load"

\* executor.ts executeTask catch: if (task.retry && attempts < task.retry.attempts)
RetryAllowed(t) ==
    /\ pipeline.tasks[t].retry # 0
    /\ runTasks[t].attempts < pipeline.tasks[t].retry

\* executor.ts executeTask catch: how the call ends (return after scheduling the
\* retry, throw error unless continueOnError)
FailureSettles(t) ==
    IF RetryAllowed(t) \/ options.continueOnError THEN "resolved" ELSE "rejected"

\* The executeTask call of t ends: its promise settles if the wrapper holds it
\* (the first attempt); a retry's promise is only given a .catch that logs.
EndInvocation(t, how) ==
    /\ invocation' = [invocation EXCEPT ![t] = "none"]
    /\ promise' = IF promise[t] = "pending" THEN [promise EXCEPT ![t] = how]
                  ELSE promise

\* executor.ts executeTask catch block
FailureBranch(t, msg) ==
    /\ runTasks' =
         [runTasks EXCEPT ![t] =
            IF RetryAllowed(t)
            THEN [@ EXCEPT !.status = "pending", !.startedAt = FALSE,
                           !.completedAt = FALSE, !.result = NoResult]
            ELSE [@ EXCEPT !.status = "failed", !.completedAt = TRUE,
                           !.result = ErrorResult(msg)]]
    /\ retryTimer' = [retryTimer EXCEPT ![t] = RetryAllowed(t)]
    /\ EndInvocation(t, FailureSettles(t))

\* executor.ts executeTask: result.success
SuccessBranch(t) ==
    /\ runTasks' = [runTasks EXCEPT ![t].result = SuccessResult,
                                    ![t].status = "success",
                                    ![t].completedAt = TRUE]
    /\ EndInvocation(t, "resolved")
    /\ UNCHANGED retryTimer

\* ------------------------------------------------------------------ scheduler

JobIds == 1 .. MaxJobs
\* The pipelines callers schedule, by name
ScheduledPipelines == 1 .. MaxScheduled

\* validate.ts createCronJob: the job is made with running = false, no timer
NewCronJob(p) == [pipeline |-> p, running |-> FALSE]

\* validate.ts schedulePipeline: const schedulerJob = {id, pipeline, ..., enabled: true}
NewSchedulerJob(p) == [pipeline |-> p, enabled |-> TRUE]

NotStarting == [pc |-> "idle", keys |-> {}]

\* f with key k set to v (Map.set, stateManager.set)
MapSet(f, k, v) == [x \in DOMAIN f \cup {k} |-> IF x = k THEN v ELSE f[x]]
\* f without key k (Map.delete, stateManager.delete)
MapDelete(f, k) == [x \in DOMAIN f \ {k} |-> f[x]]

\* validate.ts PipelineScheduler: constructor and field initializers, over an
\* empty State Store
SchedulerInit ==
    /\ isRunning = FALSE
    /\ jobs = << >>
    /\ jobStore = << >>
    /\ nextJobId = 1
    /\ entries = {}
    /\ starting = NotStarting
    /\ firedRuns = [id \in JobIds |-> 0]
    /\ cleanupRunning = FALSE
    /\ stopped = FALSE
    /\ unscheduled = {}
    /\ failedRuns = {}

\* ------------------------------------------------- State Store: file backend

StoreClients == 1 .. MaxClients
StoreKeys == {"k1", "k2"}
RunIds == 1 .. MaxStoredRuns
PipelineNames == {"a", "b"}
\* startedAt values, in days; the clock reads Today during every operation
Days == 1 .. MaxDay
Today == MaxDay + 1

\* A timestamp is a Date object in memory and an ISO string in JSON
DateOf(day) == <<"Date", day>>
IsoOf(day) == <<"string", day>>
IsDate(ts) == ts[1] = "Date"

\* The runs callers hand to savePipelineRun (types: PipelineRun)
StoreRuns ==
    { [id |-> i, pipelineName |-> n, status |-> st, startedAt |-> DateOf(d)] :
        i \in RunIds, n \in PipelineNames, st \in {"running", "success"}, d \in Days }

\* Date.prototype.toJSON, as JSON.stringify applies it; a string stays a string
ToJSON(ts) == IF IsDate(ts) THEN IsoOf(ts[2]) ELSE ts

\* A run after JSON.parse(JSON.stringify(run)), without a reviver
StoredForm(run) == [run EXCEPT !.startedAt = ToJSON(@)]

\* state.ts saveState followed by loadState: JSON.parse(JSON.stringify(state))
StringifyParse(state) ==
    [state EXCEPT !.runs = [i \in DOMAIN state.runs |-> StoredForm(state.runs[i])]]

EmptyDocument == [keys |-> {}, runs |-> << >>]

\* state.ts savePipelineRun: runs.findIndex(r => r.id === run.id), 0 if none
FindIndex(runs, id) ==
    IF \E i \in DOMAIN runs : runs[i].id = id
    THEN CHOOSE i \in DOMAIN runs :
            /\ runs[i].id = id
            /\ \A j \in DOMAIN runs : runs[j].id = id => i <= j
    ELSE 0

\* state.ts savePipelineRun: replace at the index found, else push
Upsert(runs, run) ==
    IF FindIndex(runs, run.id) > 0
    THEN [runs EXCEPT ![FindIndex(runs, run.id)] = run]
    ELSE Append(runs, run)

\* JavaScript `startedAt > cutoff` with cutoff a Date: a Date compares by its
\* time value, a string is converted with Number(), which gives NaN for an
\* ISO timestamp, and every comparison with NaN is false
GreaterThanDate(ts, cutoffDay) == IF IsDate(ts) THEN ts[2] > cutoffDay ELSE FALSE

\* state.ts cleanupOldRuns: runs.filter(run => run.startedAt > cutoff)
KeptRuns(runs, retentionDays) ==
    SelectSeq(runs, LAMBDA r : GreaterThanDate(r.startedAt, Today - retentionDays))

RECURSIVE SortNewestFirst(_)
\* Array.prototype.sort with (a, b) => b.startedAt.getTime() - a.startedAt.getTime()
\* on Date values (a stable sort, newest first)
SortNewestFirst(runs) ==
    IF Len(runs) <= 1 THEN runs
    ELSE LET newest == CHOOSE i \in DOMAIN runs :
                          /\ \A j \in DOMAIN runs : runs[j].startedAt[2] <= runs[i].startedAt[2]
                          /\ \A j \in DOMAIN runs :
                                 runs[j].startedAt[2] = runs[i].startedAt[2] => i <= j
             rest == [k \in 1 .. Len(runs) - 1 |-> IF k < newest THEN runs[k] ELSE runs[k + 1]]
         IN <<runs[newest]>> \o SortNewestFirst(rest)

\* state.ts getPipelineRuns: filter, sort, slice. The comparator is called as
\* soon as two runs are compared, and startedAt.getTime is not a function when
\* startedAt is a string
FileGetPipelineRuns(runs, name, limit) ==
    LET filtered == SelectSeq(runs, LAMBDA r : r.pipelineName = name)
    IN IF Len(filtered) >= 2 /\ \E i \in DOMAIN filtered : ~IsDate(filtered[i].startedAt)
       THEN [threw |-> "TypeError", runs |-> << >>]
       ELSE [threw |-> "",
             runs |-> SubSeq(SortNewestFirst(filtered), 1,
                             IF limit < Len(filtered) THEN limit ELSE Len(filtered))]

\* state.ts getPipelineRun: runs.find(r => r.id === runId) || null
FileGetPipelineRun(runs, id) ==
    IF FindIndex(runs, id) > 0 THEN <<runs[FindIndex(runs, id)]>> ELSE << >>

NoFileOp ==
    [op |-> "none", key |-> "", run |-> << >>, name |-> "", n |-> 0, pc |-> "idle",
     state |-> EmptyDocument, runs |-> << >>, loaded |-> << >>, result |-> << >>,
     overlap |-> FALSE]

FileInit ==
    /\ fileDoc = EmptyDocument
    /\ fileOps = [c \in StoreClients |-> NoFileOp]
    /\ fileCalls = 0
    /\ lastSet = [k \in StoreKeys |-> "none"]
    /\ lastSaved = [i \in RunIds |-> << >>]

FileBusy(c) == fileOps[c].pc \notin {"idle", "done"}

\* Client c takes a step: every other operation in progress is overlapped
FileStep(c, next) ==
    fileOps' = [d \in StoreClients |->
                  IF d = c THEN next
                  ELSE IF FileBusy(d) THEN [fileOps[d] EXCEPT !.overlap = TRUE]
                  ELSE fileOps[d]]

\* A client calls an operation of the file backend; every operation starts
\* with loadState
FileCall(c, op, key, run, name, n) ==
    /\ ~FileBusy(c)
    /\ fileCalls < MaxStoreOps
    /\ fileCalls' = fileCalls + 1
    /\ FileStep(c, [NoFileOp EXCEPT !.op = op, !.key = key, !.run = run,
                                    !.name = name, !.n = n, !.pc = "load"])
    /\ UNCHANGED <<fileDoc, lastSet, lastSaved, execVars, schedVars, sqlVars, parseVars>>

\* state.ts loadState returns inside set, delete or get, and the caller runs
\* up to its next await
FileLoadState(c) ==
    LET o == fileOps[c]
        state == fileDoc
    IN /\ o.pc = "load"
       /\ FileStep(c,
            CASE o.op = "set" ->
                   [o EXCEPT !.state = [state EXCEPT !.keys = @ \cup {o.key}], !.pc = "write"]
              [] o.op = "delete" ->
                   [o EXCEPT !.state = [state EXCEPT !.keys = @ \ {o.key}], !.pc = "write"]
              [] o.op = "savePipelineRun" ->
                   [o EXCEPT !.loaded = state.runs, !.runs = Upsert(state.runs, o.run),
                             !.pc = "load2"]
              [] o.op = "cleanupOldRuns" ->
                   IF Len(KeptRuns(state.runs, o.n)) < Len(state.runs)
                   THEN [o EXCEPT !.loaded = state.runs, !.runs = KeptRuns(state.runs, o.n),
                                  !.result = <<Len(state.runs) - Len(KeptRuns(state.runs, o.n))>>,
                                  !.pc = "load2"]
                   ELSE [o EXCEPT !.loaded = state.runs, !.runs = state.runs,
                                  !.result = <<0>>, !.pc = "done"]
              [] o.op = "getPipelineRuns" ->
                   [o EXCEPT !.loaded = state.runs,
                             !.result = <<FileGetPipelineRuns(state.runs, o.name, o.n)>>,
                             !.pc = "done"]
              [] o.op = "getPipelineRun" ->
                   [o EXCEPT !.loaded = state.runs,
                             !.result = FileGetPipelineRun(state.runs, o.run.id),
                             !.pc = "done"])
       /\ UNCHANGED <<fileDoc, fileCalls, lastSet, lastSaved, execVars, schedVars, sqlVars,
                      parseVars>>

\* state.ts set('pipeline_runs', runs) inside savePipelineRun and
\* cleanupOldRuns: its own loadState returns, state[key] = value
FileSetLoadsState(c) ==
    LET o == fileOps[c]
    IN /\ o.pc = "load2"
       /\ FileStep(c, [o EXCEPT !.state = [fileDoc EXCEPT !.runs = o.runs], !.pc = "write"])
       /\ UNCHANGED <<fileDoc, fileCalls, lastSet, lastSaved, execVars, schedVars, sqlVars,
                      parseVars>>

\* state.ts saveState: writeFile(JSON.stringify(state)) completes and the
\* operation returns
FileSaveState(c) ==
    LET o == fileOps[c]
    IN /\ o.pc = "write"
       /\ fileDoc' = StringifyParse(o.state)
       /\ FileStep(c, [o EXCEPT !.pc = "done"])
       /\ lastSet' = IF o.op \in {"set", "delete"}
                     THEN [lastSet EXCEPT ![o.key] = o.op]
                     ELSE lastSet
       /\ lastSaved' =
            CASE o.op = "savePipelineRun" -> [lastSaved EXCEPT ![o.run.id] = <<o.run>>]
              [] o.op = "cleanupOldRuns" ->
                   [i \in RunIds |->
                      IF /\ FindIndex(o.loaded, i) > 0
                         /\ FindIndex(o.runs, i) = 0
                      THEN << >> ELSE lastSaved[i]]
              [] OTHER -> lastSaved
       /\ UNCHANGED <<fileCalls, execVars, schedVars, sqlVars, parseVars>>

FileNext ==
    \/ \E c \in StoreClients, op \in {"set", "delete"}, key \in StoreKeys :
         FileCall(c, op, key, << >>, "", 0)
    \/ \E c \in StoreClients, run \in StoreRuns :
         FileCall(c, "savePipelineRun", "", run, "", 0)
    \/ \E c \in StoreClients, n \in 1 .. MaxDay :
         FileCall(c, "cleanupOldRuns", "", << >>, "", n)
    \/ \E c \in StoreClients, name \in PipelineNames, n \in 1 .. MaxStoredRuns :
         FileCall(c, "getPipelineRuns", "", << >>, name, n)
    \/ \E c \in StoreClients, i \in RunIds :
         FileCall(c, "getPipelineRun", "", [id |-> i], "", 0)
    \/ \E c \in StoreClients : FileLoadState(c)
    \/ \E c \in StoreClients : FileSetLoadsState(c)
    \/ \E c \in StoreClients : FileSaveState(c)

\* ----------------------------------------------- State Store: SQLite backend

TaskIds == 1 .. MaxStoredTasks
Absent == "undefined"

\* A TaskExecution of a saved run (types: TaskExecution, Task, PluginResult);
\* an optional result is a sequence of length 0 or 1
StoredTask(id, st, attempts, result) ==
    [task |-> [id |-> id, plugin |-> "plugin"], status |-> st,
     attempts |-> attempts, result |-> result]

\* The runs the executor hands to savePipelineRun: at the start of a run every
\* task is pending without a result; at the end the run succeeded with every
\* task successful, or failed at its first task with the others still pending
SqlRun(id, st) ==
    [id |-> id, pipelineName |-> "a", status |-> st, startedAt |-> DateOf(1),
     trigger |-> "manual",
     error |-> IF st = "failed" THEN "Task failed" ELSE Absent,
     tasks |-> [t \in TaskIds |->
                  CASE st = "success" ->
                         StoredTask(t, "success", 1,
                                    <<[success |-> TRUE, output |-> "out", error |-> Absent]>>)
                    [] st = "failed" /\ t = 1 ->
                         StoredTask(t, "failed", 1,
                                    <<[success |-> FALSE, output |-> Absent, error |-> "boom"]>>)
                    [] OTHER -> StoredTask(t, "pending", 0, << >>)]]

SqlRuns == { SqlRun(i, st) : i \in RunIds, st \in {"running", "success", "failed"} }

\* state.ts savePipelineRun: the parameters of the INSERT into the runs table
RunRow(run) ==
    [pipeline_name |-> run.pipelineName, status |-> run.status,
     started_at |-> ToJSON(run.startedAt), trigger_type |-> run.trigger,
     error_text |-> IF run.error = Absent THEN "NULL" ELSE run.error]

\* state.ts savePipelineRun: the parameters of the INSERT into the tasks table
TaskRow(runId, te) ==
    [run_id |-> runId, task_id |-> te.task.id, status |-> te.status,
     attempts |-> te.attempts,
     result_output |-> IF Len(te.result) > 0 /\ te.result[1].output # Absent
                       THEN te.result[1].output ELSE "NULL",
     result_error |-> IF Len(te.result) > 0 /\ te.result[1].error # Absent
                      THEN te.result[1].error ELSE "NULL"]

\* state.ts getPipelineRun: the TaskExecution built from a row of the tasks table
TaskOfRow(row) ==
    [task |-> [id |-> row.task_id, plugin |-> ""], status |-> row.status,
     attempts |-> row.attempts,
     result |-> <<[success |-> row.status = "success",
                   output |-> IF row.result_output # "NULL" THEN row.result_output ELSE Absent,
                   error |-> IF row.result_error # "NULL" THEN row.result_error ELSE Absent]>>]

\* state.ts getPipelineRun: the PipelineRun built from the run row and the task rows
RunOfRows(id, runRow, taskRows) ==
    [id |-> id, pipelineName |-> runRow.pipeline_name, status |-> runRow.status,
     startedAt |-> DateOf(runRow.started_at[2]), trigger |-> runRow.trigger_type,
     error |-> IF runRow.error_text # "NULL" THEN runRow.error_text ELSE Absent,
     tasks |-> [i \in DOMAIN taskRows |-> TaskOfRow(taskRows[i])]]

NoSqlOp ==
    [op |-> "none", run |-> << >>, id |-> 0, pc |-> "idle", next |-> 0,
     runRow |-> << >>, result |-> << >>, overlap |-> FALSE]

SqlInit ==
    /\ runsTable = << >>
    /\ tasksTable = << >>
    /\ sqlOps = [c \in StoreClients |-> NoSqlOp]
    /\ sqlCalls = 0
    /\ sqlSaved = [i \in RunIds |-> << >>]

StoreInit ==
    /\ FileInit
    /\ SqlInit

SqlBusy(c) == sqlOps[c].pc \notin {"idle", "done"}

\* Client c takes a step: every other operation in progress is overlapped
SqlStep(c, next) ==
    sqlOps' = [d \in StoreClients |->
                 IF d = c THEN next
                 ELSE IF SqlBusy(d) THEN [sqlOps[d] EXCEPT !.overlap = TRUE]
                 ELSE sqlOps[d]]

\* A client calls savePipelineRun or getPipelineRun of the SQLite backend
SqlCall(c, op, run, id) ==
    /\ ~SqlBusy(c)
    /\ sqlCalls < MaxStoreOps
    /\ sqlCalls' = sqlCalls + 1
    /\ SqlStep(c, [NoSqlOp EXCEPT !.op = op, !.run = run, !.id = id,
                                  !.pc = IF op = "savePipelineRun" THEN "insertRun" ELSE "selectRun"])
    /\ UNCHANGED <<runsTable, tasksTable, sqlSaved, execVars, schedVars, fileVars, parseVars>>

\* state.ts savePipelineRun: INSERT OR REPLACE INTO runs, keyed by id
SqlInsertRun(c) ==
    LET o == sqlOps[c]
    IN /\ o.pc = "insertRun"
       /\ runsTable' = MapSet(runsTable, o.run.id, RunRow(o.run))
       /\ SqlStep(c, [o EXCEPT !.pc = "insertTask", !.next = 1])
       /\ UNCHANGED <<tasksTable, sqlCalls, sqlSaved, execVars, schedVars, fileVars, parseVars>>

\* state.ts savePipelineRun: INSERT OR REPLACE INTO tasks for the next task of
\* run.tasks. The table's key is its AUTOINCREMENT id and it has no unique
\* constraint on (run_id, task_id), so the statement always adds a row. After
\* the last task the operation returns
SqlInsertTask(c) ==
    LET o == sqlOps[c]
    IN /\ o.pc = "insertTask"
       /\ tasksTable' = Append(tasksTable, TaskRow(o.run.id, o.run.tasks[o.next]))
       /\ IF o.next < Len(o.run.tasks)
          THEN /\ SqlStep(c, [o EXCEPT !.next = @ + 1])
               /\ UNCHANGED sqlSaved
          ELSE /\ SqlStep(c, [o EXCEPT !.pc = "done"])
               /\ sqlSaved' = [sqlSaved EXCEPT ![o.run.id] = <<o.run>>]
       /\ UNCHANGED <<runsTable, sqlCalls, execVars, schedVars, fileVars, parseVars>>

\* state.ts getPipelineRun: SELECT * FROM runs WHERE id = ?; null if no row
SqlSelectRun(c) ==
    LET o == sqlOps[c]
    IN /\ o.pc = "selectRun"
       /\ IF o.id \in DOMAIN runsTable
          THEN SqlStep(c, [o EXCEPT !.runRow = <<runsTable[o.id]>>, !.pc = "selectTasks"])
          ELSE SqlStep(c, [o EXCEPT !.result = << >>, !.pc = "done"])
       /\ UNCHANGED <<runsTable, tasksTable, sqlCalls, sqlSaved, execVars, schedVars,
                      fileVars, parseVars>>

\* state.ts getPipelineRun: SELECT * FROM tasks WHERE run_id = ?, then the
\* PipelineRun is built and returned
SqlSelectTasks(c) ==
    LET o == sqlOps[c]
        taskRows == SelectSeq(tasksTable, LAMBDA row : row.run_id = o.id)
    IN /\ o.pc = "selectTasks"
       /\ SqlStep(c, [o EXCEPT !.result = <<RunOfRows(o.id, o.runRow[1], taskRows)>>,
                               !.pc = "done"])
       /\ UNCHANGED <<runsTable, tasksTable, sqlCalls, sqlSaved, execVars, schedVars,
                      fileVars, parseVars>>

SqlNext ==
    \/ \E c \in StoreClients, run \in SqlRuns : SqlCall(c, "savePipelineRun", run, run.id)
    \/ \E c \in StoreClients, i \in RunIds : SqlCall(c, "getPipelineRun", << >>, i)
    \/ \E c \in StoreClients : SqlInsertRun(c)
    \/ \E c \in StoreClients : SqlInsertTask(c)
    \/ \E c \in StoreClients : SqlSelectRun(c)
    \/ \E c \in StoreClients : SqlSelectTasks(c)

\* ------------------------------------------------------------------- parser

\* Strings of a pipeline document: task ids with and without surrounding
\* blanks, and the blank string (which also stands for a value that is not a
\* string)
Blank == ""
Padded == " a"
RawIds == {"a", "b", "c", Padded, Blank}
RawPlugins == {"plugin", Blank}
\* An entry of a dependsOn array: a string, or a value that is not a string
NotAString == "#7"
RawDeps == {"a", "b", "c", Padded, NotAString}

\* String.prototype.trim
Trim(s) == IF s = Padded THEN "a" ELSE s

\* The values JSON.parse and js-yaml load give to an optional field: absent,
\* null, a finite number, the number .inf, a non-empty string, an array, and
\* a mapping that holds JSON values only (0), a timestamp that load turned
\* into a Date (1), or the ISO string of that timestamp (2)
Undefined == [type |-> "undefined", value |-> 0]
Null == [type |-> "null", value |-> 0]
Num(n) == [type |-> "number", value |-> n]
PositiveInfinity == [type |-> "Infinity", value |-> 0]
Str == [type |-> "string", value |-> 0]
Arr == [type |-> "array", value |-> 0]
Obj == [type |-> "object", value |-> 0]
ObjWithDate == [type |-> "object", value |-> 1]
ObjWithIsoString == [type |-> "object", value |-> 2]
\* The object literal {} of validateTasks
EmptyObj == [type |-> "object", value |-> 3]

\* The typeof operator
TypeOf(v) ==
    IF v.type \in {"null", "array"} THEN "object"
    ELSE IF v.type = "Infinity" THEN "number"
    ELSE v.type

\* ToBoolean, as used by && and ||
Truthy(v) ==
    /\ v.type \notin {"undefined", "null"}
    /\ ~(v.type = "number" /\ v.value = 0)

\* v < n and v > n for a value v whose typeof is number
LessThan(v, n) == v.type = "number" /\ v.value < n
GreaterThan(v, n) == v.type = "Infinity" \/ (v.type = "number" /\ v.value > n)

\* JSON.stringify followed by JSON.parse, on the value of a property: a
\* non-finite number becomes null, a Date becomes its ISO string, and an
\* undefined property is left out and so reads as undefined
JsonValue(v) ==
    IF v = PositiveInfinity THEN Null
    ELSE IF v = ObjWithDate THEN ObjWithIsoString
    ELSE v

RECURSIVE SeqsUpTo(_, _)
\* The sequences over S of length at most n
SeqsUpTo(S, n) ==
    IF n = 0 THEN { << >> }
    ELSE LET shorter == SeqsUpTo(S, n - 1)
         IN shorter \cup { Append(q, x) : q \in shorter, x \in S }

\* The dependsOn value of a task of the document: absent, not an array, or an array
RawDependsOn ==
    { [kind |-> "undefined", items |-> << >>], [kind |-> "notArray", items |-> << >>] }
    \cup { [kind |-> "array", items |-> q] : q \in SeqsUpTo(RawDeps, MaxDeps) \ { << >> } }

\* The tasks of the documents that vary the task graph: every task has a
\* name, and no config, retry, timeout or enabled
RawTasks == [id : RawIds, plugin : RawPlugins, dependsOn : RawDependsOn,
             config : {Undefined}, timeout : {Undefined}]

\* A task that validateTasks or validateDependencies rejects by itself
Malformed(t) ==
    \/ Trim(t.id) = Blank
    \/ Trim(t.plugin) = Blank
    \/ t.dependsOn.kind = "notArray"
    \/ \E k \in DOMAIN t.dependsOn.items : t.dependsOn.items[k] = NotAString

\* The task arrays of the documents handed to parse
Documents ==
    UNION { { d \in [1 .. n -> RawTasks] :
                Cardinality({ i \in 1 .. n : Malformed(d[i]) }) <= MaxMalformed } :
            n \in 0 .. MaxDocTasks }

\* The values of the optional fields of the documents handed to parse
RawDescriptions == {Undefined, Str, Num(2)}
RawConcurrencies == {Undefined, Num(-1), Num(0), Num(2), Str}
RawTimeouts == {Undefined, Num(-1), Num(2), PositiveInfinity, Str}
RawEnvs == {Undefined, Obj, ObjWithDate, Arr}
RawConfigs == {Undefined, Obj, ObjWithDate, Str}

\* The tasks of the documents that vary the optional fields: one task with
\* a name and no dependsOn
FieldTasks == [id : {"a"}, plugin : {"plugin"},
               dependsOn : {[kind |-> "undefined", items |-> << >>]},
               config : RawConfigs, timeout : RawTimeouts]

\* The pipeline mappings of the documents handed to parse, each with a name
\* and a version and without triggers: those that vary the task graph and
\* those that vary the optional fields
Configs ==
    [tasks : Documents, description : {Undefined}, concurrency : {Undefined},
     timeout : {Undefined}, env : {Undefined}]
    \cup [tasks : { <<t>> : t \in FieldTasks }, description : RawDescriptions,
          concurrency : RawConcurrencies, timeout : RawTimeouts, env : RawEnvs]

NoDocument ==
    [tasks |-> <<[id |-> "none", plugin |-> "none",
                  dependsOn |-> [kind |-> "undefined", items |-> << >>],
                  config |-> Undefined, timeout |-> Undefined]>>,
     description |-> Undefined, concurrency |-> Undefined, timeout |-> Undefined,
     env |-> Undefined]

NoPipeline ==
    [tasks |-> << >>, description |-> Undefined, concurrency |-> Undefined,
     timeout |-> Undefined, env |-> Undefined]

NotParsed ==
    [outcome |-> "none", pipeline |-> NoPipeline, warnings |-> {}, errors |-> {},
     circular |-> << >>]

\* parser.ts constructor without options
DefaultParserOptions == [validate |-> TRUE, strict |-> FALSE]

ParserInit ==
    /\ parserOptions = DefaultParserOptions
    /\ document = NoDocument
    /\ parsed = NotParsed
    /\ reparsed = NotParsed

RECURSIVE ValidateDependencies(_)
\* parser.ts validateDependencies, on the items of an array: strings are
\* trimmed and kept, other values are dropped
ValidateDependencies(items) ==
    IF items = << >> THEN << >>
    ELSE IF Head(items) # NotAString
         THEN <<Trim(Head(items))>> \o ValidateDependencies(Tail(items))
         ELSE ValidateDependencies(Tail(items))

\* parser.ts validateDependencies: the errors it pushes
DependencyErrors(dependsOn) ==
    (IF dependsOn.kind = "notArray" THEN {"dependsOn should be an array"} ELSE {})
    \cup (IF \E i \in DOMAIN dependsOn.items : dependsOn.items[i] = NotAString
          THEN {"dependsOn contains non-string value"} ELSE {})

\* parser.ts validateTasks: the config it keeps
ValidateConfig(config) ==
    IF Truthy(config) /\ TypeOf(config) = "object" THEN config ELSE EmptyObj

\* parser.ts validateTasks: the timeout it keeps
ValidateTimeout(timeout) ==
    IF timeout # Undefined /\ TypeOf(timeout) = "number" /\ GreaterThan(timeout, 0)
    THEN timeout ELSE Undefined

\* parser.ts validateTasks: the warning it pushes for a timeout
TimeoutWarnings(timeout) ==
    IF timeout # Undefined /\ ~(TypeOf(timeout) = "number" /\ GreaterThan(timeout, 0))
    THEN {"Task timeout should be a positive number"} ELSE {}

RECURSIVE ValidateTasks(_, _, _, _, _)
\* parser.ts validateTasks, from task `index` on: the tasks validated so far,
\* the warnings and the errors so far
ValidateTasks(tasks, index, validated, warnings, errors) ==
    IF index > Len(tasks)
    THEN [tasks |-> validated, warnings |-> warnings, errors |-> errors]
    ELSE LET t == tasks[index]
             taskId == Trim(t.id)
             taskIds == { validated[i].id : i \in DOMAIN validated }
         IN IF Trim(t.id) = Blank
            THEN ValidateTasks(tasks, index + 1, validated, warnings,
                               errors \cup {"must have a non-empty id"})
            ELSE IF Trim(t.plugin) = Blank
            THEN ValidateTasks(tasks, index + 1, validated, warnings,
                               errors \cup {"must have a non-empty plugin"})
            ELSE IF taskId \in taskIds
            THEN ValidateTasks(tasks, index + 1, validated, warnings,
                               errors \cup {"Duplicate task ID"})
            ELSE ValidateTasks(tasks, index + 1,
                               Append(validated,
                                      [id |-> taskId,
                                       plugin |-> Trim(t.plugin),
                                       config |-> ValidateConfig(t.config),
                                       dependsOn |-> ValidateDependencies(t.dependsOn.items),
                                       timeout |-> ValidateTimeout(t.timeout)]),
                               warnings \cup TimeoutWarnings(t.timeout),
                               errors \cup DependencyErrors(t.dependsOn))

\* tasks.find(t => t.id === taskId): its dependsOn, empty if there is none
DependsOnOf(tasks, taskId) ==
    IF \E i \in DOMAIN tasks : tasks[i].id = taskId
    THEN tasks[CHOOSE i \in DOMAIN tasks :
                 tasks[i].id = taskId /\ \A j \in DOMAIN tasks : tasks[j].id = taskId => i <= j].dependsOn
    ELSE << >>

RECURSIVE DetectCycles(_, _, _, _, _)
RECURSIVE DetectCyclesOfDeps(_, _, _, _, _)
\* Mutant of DetectCycles: the visited test comes before the recursion stack test
DetectCyclesVisitedFirst(taskId, tasks, visited, recursionStack, found) ==
    IF taskId \in visited THEN [visited |-> visited, found |-> found]
    ELSE IF taskId \in recursionStack
         THEN [visited |-> visited, found |-> Append(found, taskId)]
    ELSE DetectCyclesOfDeps(DependsOnOf(tasks, taskId), tasks, visited \cup {taskId},
                            recursionStack \cup {taskId}, found)

\* parser.ts detectCycles: a depth-first visit from taskId; gives the visited
\* set afterwards and the tasks named by the circular dependency errors
\* pushed so far, in the order of the errors
DetectCycles(taskId, tasks, visited, recursionStack, found) ==
    IF taskId \in recursionStack
    THEN [visited |-> visited, found |-> Append(found, taskId)]
    ELSE IF taskId \in visited THEN [visited |-> visited, found |-> found]
    ELSE DetectCyclesOfDeps(DependsOnOf(tasks, taskId), tasks, visited \cup {taskId},
                            recursionStack \cup {taskId}, found)

\* parser.ts detectCycles: the loop over task.dependsOn
DetectCyclesOfDeps(deps, tasks, visited, recursionStack, found) ==
    IF deps = << >> THEN [visited |-> visited, found |-> found]
    ELSE LET r == DetectCycles(Head(deps), tasks, visited, recursionStack, found)
         IN DetectCyclesOfDeps(Tail(deps), tasks, r.visited, recursionStack, r.found)

RECURSIVE CyclesFrom(_, _, _, _)
\* Mutant of CyclesFrom: the loop stops at the first circular dependency error
CyclesFromStopsAtFirst(index, tasks, visited, found) ==
    IF index > Len(tasks) \/ found # << >> THEN found
    ELSE IF tasks[index].id \in visited
         THEN CyclesFrom(index + 1, tasks, visited, found)
         ELSE LET r == DetectCycles(tasks[index].id, tasks, visited, {}, found)
              IN CyclesFrom(index + 1, tasks, r.visited, r.found)

\* parser.ts validateDAGStructure: the loop that starts detectCycles at every
\* task not visited yet
CyclesFrom(index, tasks, visited, found) ==
    IF index > Len(tasks) THEN found
    ELSE IF tasks[index].id \in visited
         THEN CyclesFrom(index + 1, tasks, visited, found)
         ELSE LET r == DetectCycles(tasks[index].id, tasks, visited, {}, found)
              IN CyclesFrom(index + 1, tasks, r.visited, r.found)

\* parser.ts validateDAGStructure: the tasks named by the circular
\* dependency errors it pushes, in the order of the errors
CircularErrors(tasks) == CyclesFrom(1, tasks, {}, << >>)

\* Mutant of OrphanedTasks: the tasks without dependencies
TasksWithoutDependencies(tasks) == { i \in DOMAIN tasks : tasks[i].dependsOn = << >> }

\* parser.ts validateDAGStructure: the tasks without dependencies and
\* without dependents
OrphanedTasks(tasks) ==
    LET hasDependents == UNION { { tasks[i].dependsOn[k] : k \in DOMAIN tasks[i].dependsOn } :
                                 i \in DOMAIN tasks }
    IN { i \in DOMAIN tasks : tasks[i].dependsOn = << >> /\ tasks[i].id \notin hasDependents }

\* parser.ts validateDAGStructure: the errors it pushes
ValidateDAGStructure(tasks) ==
    LET taskIds == { tasks[i].id : i \in DOMAIN tasks }
        depsOf(i) == { tasks[i].dependsOn[k] : k \in DOMAIN tasks[i].dependsOn }
    IN (IF CircularErrors(tasks) # << >> THEN {"Circular dependency detected"} ELSE {})
       \cup (IF \E i \in DOMAIN tasks : ~(depsOf(i) \subseteq taskIds)
             THEN {"depends on non-existent task"} ELSE {})
       \cup (IF Cardinality(OrphanedTasks(tasks)) > 1 THEN {"Multiple root tasks found"} ELSE {})

\* parser.ts validatePipeline: the warnings it pushes for the optional fields
OptionalFieldWarnings(p) ==
    (IF Truthy(p.description) /\ TypeOf(p.description) # "string"
     THEN {"Pipeline description should be a string"} ELSE {})
    \cup (IF Truthy(p.concurrency)
             /\ (TypeOf(p.concurrency) # "number" \/ LessThan(p.concurrency, 1))
          THEN {"Pipeline concurrency should be a positive number, using default"} ELSE {})
    \cup (IF Truthy(p.timeout) /\ (TypeOf(p.timeout) # "number" \/ LessThan(p.timeout, 0))
          THEN {"Pipeline timeout should be a non-negative number, using default"} ELSE {})
    \cup (IF Truthy(p.env) /\ (TypeOf(p.env) # "object" \/ p.env.type = "array")
          THEN {"Pipeline env should be an object, ignoring"} ELSE {})

\* parser.ts validatePipeline, for a mapping with a name and a version: the
\* pipeline it builds, and the warnings and errors it pushes
ValidatePipeline(p) ==
    LET v == ValidateTasks(p.tasks, 1, << >>,
                           IF p.tasks = << >> THEN {"Pipeline has no tasks"} ELSE {}, {})
    IN [pipeline |-> [tasks |-> v.tasks, description |-> p.description,
                      concurrency |-> p.concurrency, timeout |-> p.timeout,
                      env |-> p.env],
        warnings |-> OptionalFieldWarnings(p) \cup v.warnings,
        errors |-> v.errors \cup ValidateDAGStructure(v.tasks),
        circular |-> CircularErrors(v.tasks)]

\* parser.ts parse: it throws if validate is set and there are errors, else
\* returns the pipeline, with the warnings among the errors if strict is set
Parse(config, validate, strict) ==
    LET v == ValidatePipeline(config)
    IN IF validate /\ v.errors # {}
       THEN [outcome |-> "threw", pipeline |-> NoPipeline, warnings |-> {},
             errors |-> v.errors, circular |-> v.circular]
       ELSE [outcome |-> "returned", pipeline |-> v.pipeline, warnings |-> v.warnings,
             errors |-> IF strict THEN v.warnings \cup v.errors ELSE v.errors,
             circular |-> v.circular]

\* JSON.stringify({pipeline}) followed by JSON.parse: the mapping a parser
\* finds under the pipeline key of the serialization of a returned pipeline
Serialize(p) ==
    [tasks |-> [i \in DOMAIN p.tasks |->
                   [id |-> p.tasks[i].id,
                    plugin |-> p.tasks[i].plugin,
                    dependsOn |-> [kind |-> "array", items |-> p.tasks[i].dependsOn],
                    config |-> JsonValue(p.tasks[i].config),
                    timeout |-> JsonValue(p.tasks[i].timeout)]],
     description |-> JsonValue(p.description),
     concurrency |-> JsonValue(p.concurrency),
     timeout |-> JsonValue(p.timeout),
     env |-> JsonValue(p.env)]

\* A caller constructs a parser and parses a document, once: parse keeps no
\* state between calls
ParseDocument ==
    /\ parsed.outcome = "none"
    /\ \E config \in Configs, validate \in BOOLEAN, strict \in BOOLEAN :
          /\ parserOptions' = [validate |-> validate, strict |-> strict]
          /\ document' = config
          /\ parsed' = Parse(config, validate, strict)
    /\ UNCHANGED <<execVars, schedVars, storeVars, reparsed>>

\* The caller serializes the pipeline that parse returned and parses the
\* serialization with the same parser
ParseSerialized ==
    /\ parsed.outcome = "returned"
    /\ reparsed.outcome = "none"
    /\ reparsed' = Parse(Serialize(parsed.pipeline), parserOptions.validate,
                         parserOptions.strict)
    /\ UNCHANGED <<execVars, schedVars, storeVars, parserOptions, document, parsed>>

\* ------------------------------------------------------------------ actions

Init ==
    /\ options \in { MakeOptions(c, to, coe) :
                       c \in 0 .. MaxConcurrency, to \in {0, 1}, coe \in BOOLEAN }
    /\ pipeline = EmptyPipeline
    /\ pc = "idle"
    /\ runStatus = "none"
    /\ runError = ""
    /\ runTasks = << >>
    /\ executed = {}
    /\ batch = {}
    /\ wrapper = << >>
    /\ waitOn = << >>
    /\ promise = << >>
    /\ active = {}
    /\ invocation = << >>
    /\ orphans = << >>
    /\ retryTimer = << >>
    /\ context = << >>
    /\ stored = NothingStored
    /\ cancelRequested = FALSE
    /\ SchedulerInit
    /\ StoreInit
    /\ ParserInit

\* executePipeline, up to `await stateManager.savePipelineRun(run)`
ExecutePipeline ==
    /\ pc = "idle"
    /\ \E p \in Pipelines :
        /\ pipeline' = p
        /\ runTasks' = [t \in 1 .. Len(p.tasks) |-> NewTaskExecution]
        /\ wrapper' = [t \in 1 .. Len(p.tasks) |-> "none"]
        /\ waitOn' = [t \in 1 .. Len(p.tasks) |-> {}]
        /\ promise' = [t \in 1 .. Len(p.tasks) |-> "none"]
        /\ invocation' = [t \in 1 .. Len(p.tasks) |-> "none"]
        /\ orphans' = [t \in 1 .. Len(p.tasks) |-> 0]
        /\ retryTimer' = [t \in 1 .. Len(p.tasks) |-> FALSE]
        /\ context' = [t \in 1 .. Len(p.tasks) |-> NoContext]
    /\ runStatus' = "running"
    /\ pc' = "save1"
    /\ UNCHANGED <<schedVars, storeVars, parseVars, cancelRequested, stored, options, runError, executed, batch, active>>

\* state.ts savePipelineRun: the store was read and the run is serialized for
\* the write (saveState: JSON.stringify), first save
FirstSaveSerializes ==
    /\ pc = "save1"
    /\ ~MicrotaskRunnable
    /\ stored' = RunRecord(stored.writes + 1, runStatus, runError, runTasks)
    /\ pc' = "write1"
    /\ UNCHANGED <<schedVars, storeVars, parseVars, cancelRequested, context, options, pipeline, runStatus, runError,
                   runTasks, executed, batch, wrapper, waitOn, promise, active,
                   invocation, orphans, retryTimer>>

\* The first savePipelineRun completes: executeTasks is entered
FirstSaveDone ==
    /\ pc = "write1"
    /\ ~MicrotaskRunnable
    /\ pc' = "loop"
    /\ UNCHANGED <<schedVars, storeVars, parseVars, cancelRequested, context, stored, options, pipeline, runStatus, runError, runTasks, executed, batch,
                   wrapper, waitOn, promise, active, invocation, orphans, retryTimer>>

\* Mutant of CatchRunError: no catch, the error leaves executePipeline
RethrowRunError(msg) ==
    /\ pc' = "rejected"
    /\ UNCHANGED <<runStatus, runError>>

\* Mutant of CatchRunError: the loop is left without an error, as by `break`
BreakWithoutError(msg) ==
    /\ runStatus' = CompletionStatus(runTasks)
    /\ UNCHANGED runError
    /\ pc' = "save2"

\* executePipeline: catch and finally, up to the last savePipelineRun
CatchRunError(msg) ==
    /\ runStatus' = "failed"
    /\ runError' = msg
    /\ pc' = "save2"

\* executeTasks: one turn of the while loop, up to `await Promise.all`
ScheduleBatch ==
    /\ pc = "loop"
    /\ IF Cardinality(executed) >= Len(runTasks)
       THEN /\ runStatus' = CompletionStatus(runTasks)
            /\ pc' = "save2"
            /\ UNCHANGED <<runError, runTasks, batch, wrapper, waitOn, promise,
                           active, invocation>>
       ELSE IF GetExecutableTasks(runTasks, executed) = {}
       THEN /\ CatchRunError(ErrDeadlock)
            /\ UNCHANGED <<runTasks, batch, wrapper, waitOn, promise, active,
                           invocation>>
       ELSE LET ready == GetExecutableTasks(runTasks, executed)
                st == DispatchAll(ExecutorState, ready)
            IN /\ batch' = ready
               /\ runTasks' = st.tasks
               /\ wrapper' = st.wrapper
               /\ waitOn' = st.waitOn
               /\ promise' = st.promise
               /\ active' = st.active
               /\ invocation' = st.invocation
               /\ pc' = "awaitAll"
               /\ UNCHANGED <<runStatus, runError>>
    /\ UNCHANGED <<schedVars, storeVars, parseVars, cancelRequested, context, stored, options, pipeline, executed, orphans, retryTimer>>

\* executeTaskWithConcurrency: `await executionPromise` returns or throws; finally
WrapperSettles(t) ==
    /\ wrapper[t] = "exec"
    /\ Settled(t)
    /\ wrapper' = [wrapper EXCEPT ![t] = promise[t]]
    /\ active' = active \ {t}
    /\ UNCHANGED <<schedVars, storeVars, parseVars, cancelRequested, context, stored, options, pipeline, pc, runStatus, runError, runTasks, executed,
                   batch, waitOn, promise, invocation, orphans, retryTimer>>

\* executeTaskWithConcurrency: `await this.waitForSlot()` returns or throws.
\* Promise.race settles as the promise p that settled.
WaiterWakes(t) ==
    /\ wrapper[t] = "wait"
    /\ \E p \in waitOn[t] :
        /\ Settled(p)
        /\ IF promise[p] = "rejected"
           THEN /\ wrapper' = [wrapper EXCEPT ![t] = "rejected"]
                /\ UNCHANGED <<runTasks, promise, active, invocation>>
           ELSE LET st == StartWrapped(ExecutorState, t)
                IN /\ runTasks' = st.tasks
                   /\ wrapper' = st.wrapper
                   /\ promise' = st.promise
                   /\ active' = st.active
                   /\ invocation' = st.invocation
    /\ UNCHANGED <<schedVars, storeVars, parseVars, cancelRequested, context, stored, options, pipeline, pc, runStatus, runError, executed, batch, waitOn,
                   orphans, retryTimer>>

\* executeTasks: `await Promise.all(executionPromises)` returns or throws
AwaitAll ==
    /\ pc = "awaitAll"
    /\ IF \E t \in batch : wrapper[t] = "rejected"
       THEN /\ \E t \in batch :
                 /\ promise[t] = "rejected"
                 /\ CatchRunError(runTasks[t].result.error)
            /\ UNCHANGED executed
       ELSE /\ \A t \in batch : wrapper[t] = "resolved"
            /\ executed' = executed \cup batch
            /\ pc' = "loop"
            /\ UNCHANGED <<runStatus, runError>>
    /\ UNCHANGED <<schedVars, storeVars, parseVars, cancelRequested, context, stored, options, pipeline, runTasks, batch, wrapper, waitOn, promise, active,
                   invocation, orphans, retryTimer>>

\* executeTask: `await this.pluginLoader.loadPlugin(task.plugin)` returns; the
\* plugin is registered or not
LoadPlugin(t) ==
    /\ invocation[t] = "load"
    /\ \E found \in BOOLEAN :
        IF found
        THEN /\ invocation' = [invocation EXCEPT ![t] = "plugin"]
             /\ context' = [context EXCEPT ![t] = NewContext]
             /\ UNCHANGED <<runTasks, promise, retryTimer>>
        ELSE /\ FailureBranch(t, ErrNotFound)
             /\ UNCHANGED context
    /\ UNCHANGED <<schedVars, storeVars, parseVars, cancelRequested, stored, options, pipeline, pc, runStatus, runError, executed, batch, wrapper,
                   waitOn, active, orphans>>

\* plugin.execute settles while executeTask awaits it
PluginReturns(t) ==
    /\ invocation[t] = "plugin"
    /\ ~MicrotaskRunnable
    /\ \E outcome \in {"success", "failure", "throw"} :
        CASE outcome = "success" -> SuccessBranch(t)
          [] outcome = "failure" -> FailureBranch(t, ErrFailed)
          [] outcome = "throw" -> FailureBranch(t, ErrThrown)
    /\ UNCHANGED <<schedVars, storeVars, parseVars, cancelRequested, context, stored, options, pipeline, pc, runStatus, runError, executed, batch, wrapper,
                   waitOn, active, orphans>>

\* executeWithTimeout: the timer fires first and rejects; the plugin call goes on
TimeoutFires(t) ==
    /\ invocation[t] = "plugin"
    /\ TaskTimeout(t) > 0
    /\ ~MicrotaskRunnable
    /\ orphans' = [orphans EXCEPT ![t] = @ + 1]
    /\ FailureBranch(t, ErrTimeout)
    /\ UNCHANGED <<schedVars, storeVars, parseVars, cancelRequested, context, stored, options, pipeline, pc, runStatus, runError, executed, batch, wrapper,
                   waitOn, active>>

\* Mutant of OrphanReturns: the late result is stored on the TaskExecution
OrphanReturnsStoresResult(t) ==
    /\ orphans[t] > 0
    /\ ~MicrotaskRunnable
    /\ orphans' = [orphans EXCEPT ![t] = @ - 1]
    /\ runTasks' = [runTasks EXCEPT ![t].result = SuccessResult,
                                    ![t].status = "success"]
    /\ UNCHANGED <<schedVars, storeVars, parseVars, cancelRequested, context, stored, options, pipeline, pc, runStatus, runError, executed, batch,
                   wrapper, waitOn, promise, active, invocation, retryTimer>>

\* executeWithTimeout: the plugin call settles after its timeout fired; resolve and
\* reject of the settled promise do nothing
OrphanReturns(t) ==
    /\ orphans[t] > 0
    /\ ~MicrotaskRunnable
    /\ orphans' = [orphans EXCEPT ![t] = @ - 1]
    /\ UNCHANGED <<schedVars, storeVars, parseVars, cancelRequested, context, stored, options, pipeline, pc, runStatus, runError, runTasks, executed, batch,
                   wrapper, waitOn, promise, active, invocation, retryTimer>>

\* executeTask catch: the retry's setTimeout callback calls executeTask
RetryTimerFires(t) ==
    /\ retryTimer[t]
    /\ ~MicrotaskRunnable
    /\ retryTimer' = [retryTimer EXCEPT ![t] = FALSE]
    /\ runTasks' = BeginTask(runTasks, t)
    /\ invocation' = [invocation EXCEPT ![t] =
                        IF pipeline.tasks[t].enabled THEN "load" ELSE "none"]
    /\ UNCHANGED <<schedVars, storeVars, parseVars, cancelRequested, context, stored, options, pipeline, pc, runStatus, runError, executed, batch, wrapper,
                   waitOn, promise, active, orphans>>

\* state.ts savePipelineRun: the store was read and the run is serialized for
\* the write, last save
FinalSaveSerializes ==
    /\ pc = "save2"
    /\ ~MicrotaskRunnable
    /\ stored' = RunRecord(stored.writes + 1, runStatus, runError, runTasks)
    /\ pc' = "write2"
    /\ UNCHANGED <<schedVars, storeVars, parseVars, cancelRequested, context, options, pipeline, runStatus, runError,
                   runTasks, executed, batch, wrapper, waitOn, promise, active,
                   invocation, orphans, retryTimer>>

\* executePipeline: the last savePipelineRun completes; return run
FinalSaveDone ==
    /\ pc = "write2"
    /\ ~MicrotaskRunnable
    /\ pc' = "returned"
    /\ UNCHANGED <<schedVars, storeVars, parseVars, cancelRequested, context, stored, options, pipeline, runStatus, runError, runTasks, executed, batch,
                   wrapper, waitOn, promise, active, invocation, orphans, retryTimer>>

Next ==
    \/ ExecutePipeline
    \/ FirstSaveSerializes
    \/ FirstSaveDone
    \/ ScheduleBatch
    \/ AwaitAll
    \/ FinalSaveSerializes
    \/ FinalSaveDone
    \/ \E t \in Tasks : WrapperSettles(t)
    \/ \E t \in Tasks : WaiterWakes(t)
    \/ \E t \in Tasks : LoadPlugin(t)
    \/ \E t \in Tasks : PluginReturns(t)
    \/ \E t \in Tasks : TimeoutFires(t)
    \/ \E t \in Tasks : OrphanReturns(t)
    \/ \E t \in Tasks : RetryTimerFires(t)

Spec == Init /\ [][Next]_vars

\* executor.ts constructor: an executor whose timeout and continueOnError are
\* left at their defaults (0 and false), with any maxConcurrency
DefaultInit ==
    /\ Init
    /\ options.timeout = 0
    /\ ~options.continueOnError

\* Every step that can be taken is taken in the end: the event loop delivers
\* each completion and timer, and each plugin call settles.
FairSpec == DefaultInit /\ [][Next]_vars /\ WF_vars(Next)

\* executor.ts cancelExecution(executionId), called for the run in progress:
\* logger.info('Execution cancellation requested') and nothing else
CancelExecution ==
    /\ pc \notin {"idle", "returned"}
    /\ cancelRequested' = TRUE
    /\ UNCHANGED <<schedVars, storeVars, parseVars, context, stored, options, pipeline, pc, runStatus, runError,
                   runTasks, executed, batch, wrapper, waitOn, promise, active,
                   invocation, orphans, retryTimer>>

\* Runs during which the caller may cancel
CancelNext ==
    \/ Next
    \/ CancelExecution

CancelSpec == DefaultInit /\ [][CancelNext]_vars

\* ------------------------------------------------------------------ scheduler actions

\* validate.ts schedulePipeline, from uuidv4() to stateManager.set: the job is
\* created (not started) and put into the jobs map under a new id, and then
\* stateManager.set either persists the record or throws
RegisterJob(p, written) ==
    /\ nextJobId <= MaxJobs
    /\ jobs' = MapSet(jobs, nextJobId, NewCronJob(p))
    /\ jobStore' = IF written THEN MapSet(jobStore, nextJobId, NewSchedulerJob(p))
                  ELSE jobStore
    /\ nextJobId' = nextJobId + 1

\* validate.ts schedulePipeline called by a user of the scheduler; a trigger
\* that is not a cron trigger is refused with a ValidationError, and an error
\* of stateManager.set is rethrown as a ValidationError; else the id is returned
SchedulePipeline(p, trigger, written) ==
    /\ IF trigger = "cron"
       THEN /\ RegisterJob(p, written)
            /\ entries' = IF written THEN entries \cup {nextJobId} ELSE entries
       ELSE UNCHANGED <<jobs, jobStore, nextJobId, entries>>
    /\ UNCHANGED <<execVars, storeVars, parseVars, isRunning, starting, firedRuns, cleanupRunning, stopped,
                   unscheduled, failedRuns>>

\* validate.ts start, up to the keys stateManager.list returns to
\* loadPersistedJobs
Start ==
    /\ starting.pc = "idle"
    /\ IF isRunning
       THEN UNCHANGED starting
       ELSE starting' = [pc |-> "load", keys |-> DOMAIN jobStore]
    /\ stopped' = FALSE
    /\ UNCHANGED <<execVars, storeVars, parseVars, isRunning, jobs, jobStore, nextJobId, entries, firedRuns,
                   cleanupRunning, unscheduled, failedRuns>>

\* validate.ts loadPersistedJobs: one turn of `for (const key of jobKeys)`
LoadPersistedJob ==
    /\ starting.pc = "load"
    /\ starting.keys # {}
    /\ LET key == Min(starting.keys)
       IN /\ IF key \in DOMAIN jobStore /\ jobStore[key].enabled
             THEN \E written \in BOOLEAN : RegisterJob(jobStore[key].pipeline, written)
             ELSE UNCHANGED <<jobs, jobStore, nextJobId>>
          /\ starting' = [starting EXCEPT !.keys = @ \ {key}]
    /\ UNCHANGED <<execVars, storeVars, parseVars, isRunning, entries, firedRuns, cleanupRunning, stopped,
                   unscheduled, failedRuns>>

\* validate.ts start, after loadPersistedJobs: job.start() for every job of
\* the map, isRunning = true, startCleanupJob()
StartJobs ==
    /\ starting.pc = "load"
    /\ starting.keys = {}
    /\ jobs' = [id \in DOMAIN jobs |-> [jobs[id] EXCEPT !.running = TRUE]]
    /\ isRunning' = TRUE
    /\ cleanupRunning' = TRUE
    /\ starting' = NotStarting
    /\ UNCHANGED <<execVars, storeVars, parseVars, jobStore, nextJobId, entries, firedRuns, stopped,
                   unscheduled, failedRuns>>

\* validate.ts stop
Stop ==
    /\ IF isRunning
       THEN /\ jobs' = [id \in DOMAIN jobs |-> [jobs[id] EXCEPT !.running = FALSE]]
            /\ isRunning' = FALSE
            /\ cleanupRunning' = FALSE
       ELSE UNCHANGED <<jobs, isRunning, cleanupRunning>>
    /\ stopped' = TRUE
    /\ UNCHANGED <<execVars, storeVars, parseVars, jobStore, nextJobId, entries, starting, firedRuns,
                   unscheduled, failedRuns>>

\* Mutant of UnschedulePipeline: the persisted record is left in the store
UnscheduleKeepsRecord(id) ==
    /\ IF id \in DOMAIN jobs
       THEN /\ jobs' = MapDelete(jobs, id)
            /\ unscheduled' = unscheduled \cup {id}
       ELSE UNCHANGED <<jobs, unscheduled>>
    /\ UNCHANGED <<execVars, storeVars, parseVars, isRunning, jobStore, nextJobId, entries, starting,
                   firedRuns, cleanupRunning, stopped, failedRuns>>

\* validate.ts unschedulePipeline: job.stop(), jobs.delete, stateManager.delete
\* and return true if the id is in the jobs map, else return false
UnschedulePipeline(id) ==
    /\ IF id \in DOMAIN jobs
       THEN /\ jobs' = MapDelete(jobs, id)
            /\ jobStore' = MapDelete(jobStore, id)
            /\ unscheduled' = unscheduled \cup {id}
       ELSE UNCHANGED <<jobs, jobStore, unscheduled>>
    /\ UNCHANGED <<execVars, storeVars, parseVars, isRunning, nextJobId, entries, starting, firedRuns,
                   cleanupRunning, stopped, failedRuns>>

\* validate.ts createCronJob: the job's timer fires; execute() calls the
\* callback, which calls executeScheduledPipeline and so executePipeline, and
\* arms the timer again
TimerFires(id) ==
    /\ id \in DOMAIN jobs
    /\ jobs[id].running
    /\ firedRuns[id] < MaxRuns
    /\ firedRuns' = [firedRuns EXCEPT ![id] = @ + 1]
    /\ UNCHANGED <<execVars, storeVars, parseVars, isRunning, jobs, jobStore, nextJobId, entries, starting,
                   cleanupRunning, stopped, unscheduled, failedRuns>>

\* Mutant of ScheduledRunEnds: a run that failed or threw disarms its job
ScheduledRunEndsDisarms(id, outcome) ==
    /\ firedRuns[id] > 0
    /\ firedRuns' = [firedRuns EXCEPT ![id] = @ - 1]
    /\ failedRuns' = IF outcome = "success" THEN failedRuns ELSE failedRuns \cup {id}
    /\ jobs' = IF outcome # "success" /\ id \in DOMAIN jobs
               THEN [jobs EXCEPT ![id].running = FALSE]
               ELSE jobs
    /\ UNCHANGED <<execVars, storeVars, parseVars, isRunning, jobStore, nextJobId, entries, starting,
                   cleanupRunning, stopped, unscheduled>>

\* validate.ts executeScheduledPipeline: the awaited executePipeline call
\* returns a run (status success or failed) or throws; either is only logged
ScheduledRunEnds(id, outcome) ==
    /\ firedRuns[id] > 0
    /\ firedRuns' = [firedRuns EXCEPT ![id] = @ - 1]
    /\ failedRuns' = IF outcome = "success" THEN failedRuns ELSE failedRuns \cup {id}
    /\ UNCHANGED <<execVars, storeVars, parseVars, isRunning, jobs, jobStore, nextJobId, entries, starting,
                   cleanupRunning, stopped, unscheduled>>

\* validate.ts startCleanupJob: the housekeeping timer fires, its callback
\* calls stateManager.cleanupOldRuns and the timer is armed again
CleanupFires ==
    /\ cleanupRunning
    /\ UNCHANGED <<execVars, storeVars, parseVars, schedVars, storeVars, parseVars>>

\* The process ends and a new PipelineScheduler is constructed over the same
\* State Store: timers, runs and the jobs map are gone, the store is kept
Restart ==
    /\ isRunning' = FALSE
    /\ jobs' = << >>
    /\ starting' = NotStarting
    /\ firedRuns' = [id \in JobIds |-> 0]
    /\ cleanupRunning' = FALSE
    /\ stopped' = FALSE
    /\ UNCHANGED <<execVars, storeVars, parseVars, jobStore, nextJobId, entries, unscheduled, failedRuns>>

SchedulerNext ==
    \/ \E p \in ScheduledPipelines, trigger \in {"cron", "webhook"}, written \in BOOLEAN :
         SchedulePipeline(p, trigger, written)
    \/ Start
    \/ LoadPersistedJob
    \/ StartJobs
    \/ Stop
    \/ \E id \in JobIds : UnschedulePipeline(id)
    \/ \E id \in JobIds : TimerFires(id)
    \/ \E id \in JobIds, outcome \in {"success", "failed", "throws"} :
         ScheduledRunEnds(id, outcome)
    \/ CleanupFires
    \/ Restart

\* A new scheduler over an executor made with the constructor's defaults
SchedulerStart ==
    /\ Init
    /\ options = MakeOptions(0, 0, FALSE)

SchedulerSpec == SchedulerStart /\ [][SchedulerNext]_vars

\* The State Store alone, with the default executor and an idle scheduler
StoreStart ==
    /\ Init
    /\ options = MakeOptions(0, 0, FALSE)

FileStoreSpec == StoreStart /\ [][FileNext]_vars

SqlStoreSpec == StoreStart /\ [][SqlNext]_vars

ParserNext ==
    \/ ParseDocument
    \/ ParseSerialized

\* The parser alone, with the default executor, an idle scheduler and an
\* empty store
ParserStart ==
    /\ Init
    /\ options = MakeOptions(0, 0, FALSE)

ParserSpec == ParserStart /\ [][ParserNext]_vars

\* ------------------------------------------------------------------ graph

DepsOf(S) == UNION { pipeline.tasks[t].dependsOn \cap Tasks : t \in S }

RECURSIVE Reach(_)
Reach(S) == IF S \cup DepsOf(S) = S THEN S ELSE Reach(S \cup DepsOf(S))

\* The tasks t depends on, directly or transitively, and the tasks that depend on t
Ancestors(t) == Reach(pipeline.tasks[t].dependsOn \cap Tasks)
Descendants(t) == { d \in Tasks : t \in Ancestors(d) }

Statuses == {"pending", "running", "success", "failed", "skipped", "cancelled"}
TaskErrors == {ErrFailed, ErrThrown, ErrTimeout, ErrNotFound}

TypeOK ==
    /\ pc \in {"idle", "save1", "write1", "loop", "awaitAll", "save2", "write2",
              "returned"}
    /\ runStatus \in {"none", "running", "success", "failed", "cancelled"}
    /\ runError \in {"", ErrDeadlock} \cup TaskErrors
    /\ DOMAIN runTasks = Tasks
    /\ \A t \in Tasks :
        /\ runTasks[t].status \in Statuses
        /\ runTasks[t].attempts \in 0 .. (MaxAttempts + 1)
        /\ wrapper[t] \in {"none", "wait", "exec", "resolved", "rejected"}
        /\ promise[t] \in {"none", "pending", "resolved", "rejected"}
        /\ invocation[t] \in {"none", "load", "plugin"}
        /\ waitOn[t] \subseteq Tasks
        /\ orphans[t] \in 0 .. MaxAttempts + 1
        /\ retryTimer[t] \in BOOLEAN
    /\ executed \subseteq Tasks
    /\ batch \subseteq Tasks
    /\ active \subseteq Tasks
    /\ DOMAIN context = Tasks
    /\ \A t \in Tasks : context[t] \in {NoContext, NewContext}
    /\ stored.writes \in 0 .. 2
    /\ cancelRequested \in BOOLEAN
    /\ isRunning \in BOOLEAN
    /\ DOMAIN jobs \subseteq JobIds
    /\ \A id \in DOMAIN jobs :
        jobs[id].pipeline \in ScheduledPipelines /\ jobs[id].running \in BOOLEAN
    /\ DOMAIN jobStore \subseteq JobIds
    /\ \A id \in DOMAIN jobStore :
        jobStore[id].pipeline \in ScheduledPipelines /\ jobStore[id].enabled
    /\ nextJobId \in 1 .. (MaxJobs + 1)
    /\ entries \subseteq JobIds
    /\ starting.pc \in {"idle", "load"}
    /\ starting.keys \subseteq JobIds
    /\ firedRuns \in [JobIds -> 0 .. MaxRuns]
    /\ cleanupRunning \in BOOLEAN
    /\ stopped \in BOOLEAN
    /\ unscheduled \subseteq JobIds
    /\ failedRuns \subseteq JobIds
    /\ fileDoc.keys \subseteq StoreKeys
    /\ \A i \in DOMAIN fileDoc.runs : ~IsDate(fileDoc.runs[i].startedAt)
    /\ fileCalls \in 0 .. MaxStoreOps
    /\ \A c \in StoreClients :
          fileOps[c].pc \in {"idle", "load", "load2", "write", "done"}
    /\ lastSet \in [StoreKeys -> {"none", "set", "delete"}]
    /\ DOMAIN lastSaved = RunIds
    /\ DOMAIN runsTable \subseteq RunIds
    /\ \A i \in DOMAIN tasksTable : tasksTable[i].run_id \in DOMAIN runsTable
    /\ sqlCalls \in 0 .. MaxStoreOps
    /\ \A c \in StoreClients :
          sqlOps[c].pc \in {"idle", "insertRun", "insertTask", "selectRun", "selectTasks", "done"}
    /\ DOMAIN sqlSaved = RunIds
    /\ parsed.outcome \in {"none", "threw", "returned"}
    /\ Len(parsed.pipeline.tasks) <= Len(document.tasks)
    /\ reparsed.outcome \in {"none", "threw", "returned"}
    /\ parserOptions \in [validate : BOOLEAN, strict : BOOLEAN]

\* ------------------------------------------------------------------ claims

\* The tasks that hold a slot of the concurrency gate and whose plugin.execute
\* call is in flight
GateExecuting == { t \in Tasks : wrapper[t] = "exec" /\ invocation[t] = "plugin" }

\* C1: during executePipeline the number of tasks whose plugin is executing at
\* the same time never exceeds the concurrency limit given to the executor.
C1_ConcurrencyLimit == Cardinality(GateExecuting) <= options.maxConcurrency

\* Dispatched: the executor called executeTaskWithConcurrency for the task
Dispatched(t) == wrapper[t] # "none"
Satisfied(t) == runTasks[t].status \in {"success", "skipped"}

\* C2: every task the executor dispatches was pending and had every dependency
\* in status success or skipped at the moment of dispatch, so that no task is
\* dispatched, started or retried before every task it depends on, directly or
\* transitively, has terminated success or skipped.
C2_DispatchAfterDependencies ==
    /\ [](\A t \in Tasks :
            (Dispatched(t) \/ runTasks[t].status # "pending"
                \/ runTasks[t].attempts > 0)
              => \A d \in Ancestors(t) : Satisfied(d))
    /\ [][\A t \in Tasks :
            (~Dispatched(t) /\ Dispatched(t)')
              => /\ runTasks[t].status = "pending"
                 /\ pipeline.tasks[t].dependsOn \subseteq Tasks
                 /\ \A d \in pipeline.tasks[t].dependsOn : Satisfied(d)]_vars

\* C2 witness: a task with a dependency has its plugin executing
C2_Witness ==
    \E t \in Tasks :
        /\ pipeline.tasks[t].dependsOn # {}
        /\ invocation[t] = "plugin"

\* C3: when executePipeline has returned, every descendant of a failed task
\* that was never started is skipped with a result explaining the failed
\* ancestor (a -> b -> c with b failing: a success, b failed, c skipped).
C3_DescendantsSkipped ==
    pc = "returned" =>
        \A b \in Tasks :
            runTasks[b].status = "failed" =>
                \A c \in Descendants(b) :
                    (pipeline.tasks[c].enabled /\ runTasks[c].attempts = 0) =>
                        /\ runTasks[c].status = "skipped"
                        /\ runTasks[c].result # NoResult

\* C4: executePipeline returns a run whose status is success, failed or
\* cancelled, never running.
C4_TerminalRunStatus ==
    pc = "returned" => runStatus \in {"success", "failed", "cancelled"}

\* C5: when executePipeline returns, every task of the run is success, failed,
\* skipped or cancelled; none is pending or running.
C5_AllTasksTerminal ==
    pc = "returned" =>
        \A t \in Tasks :
            runTasks[t].status \in {"success", "failed", "skipped", "cancelled"}

\* C6: in the run returned by executePipeline, a dispatched task with
\* retry.attempts = N >= 1 whose plugin failed on every call so far has been
\* attempted N times and is failed, and the run is failed.
C6_RetryExhausted ==
    pc = "returned" =>
        \A t \in Tasks :
            (/\ pipeline.tasks[t].retry >= 1
             /\ runTasks[t].attempts >= 1
             /\ runTasks[t].status # "success")
              => /\ runTasks[t].status = "failed"
                 /\ runTasks[t].attempts = pipeline.tasks[t].retry
                 /\ runStatus = "failed"

\* C7: in a returned run without a failed task, a task with retry.attempts = 3
\* that was attempted (its plugin fails at first and succeeds on a later call)
\* is success, the tasks depending on it were run, and the run is success.
C7_RetryThenSucceed ==
    pc = "returned" =>
        \A t \in Tasks :
            (/\ pipeline.tasks[t].retry = 3
             /\ runTasks[t].attempts >= 1
             /\ \A u \in Tasks : runTasks[u].status # "failed")
              => /\ runTasks[t].status = "success"
                 /\ \A d \in Descendants(t) : runTasks[d].status # "pending"
                 /\ runStatus = "success"

\* A step in which an attempt of t ends without success: the plugin returned
\* success = false, threw, timed out or could not be resolved
AttemptFails(t) ==
    /\ invocation[t] # "none"
    /\ invocation'[t] = "none"
    /\ runTasks'[t].status # "success"

\* C8 as stated: when an attempt fails the error is recorded on the task's
\* execution: status failed, result.error set.
C8_FailureRecordedFailed ==
    [][\A t \in Tasks :
        AttemptFails(t)
          => /\ runTasks'[t].status = "failed"
             /\ runTasks'[t].result.error \in TaskErrors]_vars

\* C8 amended: executePipeline never rejects because a task failed.  A failed
\* attempt is recorded as status failed with result.success = false and the
\* error, unless a retry is scheduled, and then the task is pending with no
\* result; an error that escaped executeTask belongs to a task recorded
\* failed, and executePipeline catches it: the run is failed with the error as
\* its summary and is returned.
C8_TaskErrorsRecorded ==
    /\ \A t \in Tasks :
        /\ runTasks[t].status = "failed"
             => /\ ~runTasks[t].result.success
                /\ runTasks[t].result.error \in TaskErrors
        /\ promise[t] = "rejected" => runTasks[t].status = "failed"
        /\ (runTasks[t].attempts >= 1 /\ invocation[t] = "none" /\ ~retryTimer[t])
             => runTasks[t].status \in {"success", "failed"}
        /\ retryTimer[t]
             => /\ runTasks[t].status = "pending"
                /\ runTasks[t].result = NoResult
                /\ runTasks[t].attempts < pipeline.tasks[t].retry
    /\ ((\E t \in batch : wrapper[t] = "rejected") /\ pc # "awaitAll")
         => /\ pc \in {"save2", "write2", "returned"}
            /\ runStatus = "failed"
            /\ runError \in TaskErrors

\* C8 witness: the run was returned although a plugin threw and the error
\* escaped executeTask
C8_Witness ==
    /\ pc = "returned"
    /\ \E t \in Tasks :
        /\ promise[t] = "rejected"
        /\ runTasks[t].result = ErrorResult(ErrThrown)

\* The table of section 4.D: failed if any task failed, else cancelled if every
\* task is skipped, else success
TableStatus(ts) ==
    IF \E t \in DOMAIN ts : ts[t].status = "failed" THEN "failed"
    ELSE IF \A t \in DOMAIN ts : ts[t].status = "skipped" THEN "cancelled"
    ELSE "success"

\* C9: for a run with at least one task, the status assigned when executeTasks
\* has returned is failed if any task is failed, and follows the table when
\* the tasks are success, failed or skipped.
C9_StatusTable ==
    [][(/\ pc = "loop"
        /\ pc' = "save2"
        /\ Cardinality(executed) >= Len(runTasks)
        /\ Len(runTasks) >= 1)
         => /\ (\E t \in Tasks : runTasks[t].status = "failed")
                 => runStatus' = "failed"
            /\ (\A t \in Tasks :
                    runTasks[t].status \in {"success", "failed", "skipped"})
                 => runStatus' = TableStatus(runTasks)]_vars

\* A step in which the deadline of t's plugin call expires
DeadlineExpires(t) == orphans'[t] > orphans[t]
\* A step in which a plugin call of t completes after its deadline expired
LateCompletion(t) == orphans'[t] < orphans[t]

\* C10 as stated: when the deadline expires the task is recorded failed with a
\* timeout error.
C10_TimeoutRecordsFailed ==
    [][\A t \in Tasks :
        DeadlineExpires(t)
          => /\ runTasks'[t].status = "failed"
             /\ runTasks'[t].result = ErrorResult(ErrTimeout)]_vars

\* C10 amended: a deadline expires only for a task whose timeout, or else the
\* executor's, is > 0; the attempt then ends and executeTask no longer waits
\* for the call; the task is recorded failed with a timeout error unless its
\* retry policy allows another attempt, and then it is reset to pending with a
\* retry armed; a later completion of the call changes nothing in the run.
C10_TimeoutAmended ==
    [][\A t \in Tasks :
        /\ DeadlineExpires(t)
             => /\ TaskTimeout(t) > 0
                /\ invocation'[t] = "none"
                /\ IF RetryAllowed(t)
                   THEN /\ runTasks'[t].status = "pending"
                        /\ runTasks'[t].result = NoResult
                        /\ retryTimer'[t]
                   ELSE /\ runTasks'[t].status = "failed"
                        /\ runTasks'[t].result = ErrorResult(ErrTimeout)
        /\ LateCompletion(t)
             => /\ runTasks' = runTasks
                /\ runStatus' = runStatus
                /\ runError' = runError]_vars

\* C10 witness: executePipeline returned while a timed-out plugin call is
\* still in flight, its task recorded failed with the timeout error
C10_Witness ==
    /\ pc = "returned"
    /\ \E t \in Tasks :
        /\ orphans[t] > 0
        /\ runTasks[t].status = "failed"
        /\ runTasks[t].result = ErrorResult(ErrTimeout)

\* A step in which plugin.execute is called for t with a new ExecutionContext
PluginCalled(t) == invocation[t] = "load" /\ invocation'[t] = "plugin"

\* C11: the ExecutionContext passed to a task's plugin carries previousResults
\* whose keys are exactly the tasks that have reached success when the plugin
\* is called (fetch -> transform -> load: load sees fetch and transform).
C11_PreviousResults ==
    [][\A t \in Tasks :
        PluginCalled(t)
          => context'[t].previousResults
               = { u \in Tasks : runTasks[u].status = "success" }]_vars

Stuck ==
    /\ pc = "loop"
    /\ Cardinality(executed) < Len(runTasks)
    /\ GetExecutableTasks(runTasks, executed) = {}

Returns == pc = "write2" /\ pc' = "returned"

\* The plugin execution trace in which every plugin call returns
\* success = false: each plugin of the pipeline was found, no call succeeded,
\* threw or timed out, and every call that settled is recorded as failed with
\* the error of a returned failure.  The tasks are plain (enabled, no retry, no
\* timeout) and the gate admits them all.
EveryCallReturnsFailure ==
    /\ \A t \in Tasks :
        /\ pipeline.tasks[t] = TaskOf(pipeline.tasks[t].dependsOn, TRUE, 0, 0)
        /\ runTasks[t].status \in {"pending", "running", "failed"}
        /\ runTasks[t].status = "failed" => runTasks[t].result = ErrorResult(ErrFailed)
    /\ options.maxConcurrency > Len(pipeline.tasks)
    /\ options.timeout = 0
    /\ ~options.continueOnError

FailedTasks == { t \in Tasks : runTasks[t].status = "failed" }
RootTasks == { t \in Tasks : pipeline.tasks[t].dependsOn = {} }

\* C14: the outcome is a function of the pipeline and of the plugin execution
\* trace: in every execution in which each plugin call returns success = false,
\* the returned run is failed and its failed tasks are the same, namely the
\* tasks without dependencies, all of which were called.
C14_Deterministic ==
    [][(Returns /\ EveryCallReturnsFailure' /\ RootTasks # {})
         => /\ runStatus' = "failed"
            /\ FailedTasks' = RootTasks]_vars

\* C14, the other outcome: the same trace does return runs in which every
\* task without dependencies is failed (no step returns one, if this holds).
C14_NeverAllRootsFailed ==
    [][~(/\ Returns
         /\ EveryCallReturnsFailure'
         /\ Cardinality(RootTasks) >= 2
         /\ FailedTasks' = RootTasks)]_vars

\* C15: once cancelExecution was called for the run, the executor dispatches
\* no further task, and when it leaves the scheduling loop no task is still
\* running and the run is marked cancelled.
C15_CancelStopsRun ==
    [][cancelRequested
         => /\ \A t \in Tasks : ~Dispatched(t) => ~Dispatched(t)'
            /\ (pc \in {"loop", "awaitAll"} /\ pc' = "save2")
                 => /\ runStatus' = "cancelled"
                    /\ \A t \in Tasks : runTasks'[t].status # "running"]_vars

\* C16: the run is written to the State Store as running before executeTasks
\* is entered, so before any task is dispatched, and a second time with its
\* final status before executePipeline returns; the record last written has
\* the run status and the task statuses of the run that is returned.
C16_StoreMatchesReturn ==
    [][/\ (pc = "write1" /\ pc' = "loop")
            => /\ stored.writes = 1
               /\ stored.status = "running"
               /\ \A t \in Tasks : ~Dispatched(t)
       /\ Returns
            => /\ stored'.writes = 2
               /\ stored'.status = runStatus'
               /\ stored'.tasks = [t \in Tasks |-> runTasks'[t].status]]_vars

\* C17: executing a pipeline whose task list is empty returns a run with
\* status success and no task record.
C17_EmptyPipelineSucceeds ==
    (pc = "returned" /\ pipeline.tasks = << >>)
      => /\ runStatus = "success"
         /\ runTasks = << >>

\* C18: the scheduler never has two executePipeline calls of the same entry
\* in progress: a firing that arrives while the run of the previous firing is
\* still executing starts no run.
C18_NoOverlappingRuns == \A id \in JobIds : firedRuns[id] <= 1

\* C19: start() creates no entry: every scheduler:job:* key of the store, and
\* every job of the registry that has such a key, carries an id that
\* schedulePipeline returned to a caller, so that after one schedulePipeline
\* call and any number of start(), stop() and restarts there is one job and
\* one key.  (A job without a key is what a schedulePipeline call leaves
\* behind when its store write throws.)
C19_StartCreatesNoEntry ==
    /\ \A id \in DOMAIN jobs : id \in entries \/ id \notin DOMAIN jobStore
    /\ DOMAIN jobStore \subseteq entries

\* C20: whenever the scheduler is running, every registered entry that
\* schedulePipeline returned has its timer armed, entries scheduled after
\* start() included.
C20_ScheduledEntryArmed ==
    isRunning => \A id \in entries \cap DOMAIN jobs : jobs[id].running

\* C21: once stop() has returned and until start() is called again, the
\* scheduler is marked not running and no timer is armed: neither an entry's
\* timer nor the housekeeping timer can fire.
C21_StopHaltsFirings ==
    stopped =>
        /\ ~isRunning
        /\ ~cleanupRunning
        /\ \A id \in DOMAIN jobs : ~jobs[id].running

RestartStep ==
    /\ jobs' = << >>
    /\ ~isRunning'
    /\ ~cleanupRunning'
    /\ ~stopped'
    /\ starting' = NotStarting
    /\ firedRuns' = [id \in JobIds |-> 0]

\* C23: a step in which a fired run ends, failed or thrown included, changes
\* neither the jobs map nor the store nor the running flag: the entry is not
\* removed and its timer stays armed as it was, so that while the scheduler
\* runs and the entry is registered the next fire stays scheduled.
C23_FailedRunKeepsEntry ==
    [][/\ failedRuns' # failedRuns
          => (jobs' = jobs /\ jobStore' = jobStore /\ isRunning' = isRunning)
       /\ (\E id \in JobIds : firedRuns'[id] < firedRuns[id]) /\ ~RestartStep
          => (jobs' = jobs /\ jobStore' = jobStore /\ isRunning' = isRunning)]_vars

C23_Witness ==
    \E id \in failedRuns :
        /\ isRunning
        /\ id \in DOMAIN jobs
        /\ jobs[id].running
        /\ firedRuns[id] > 0

\* C24: when no operation of the file backend is in progress, the document
\* holds the effect of every completed mutation: a key whose latest completed
\* mutation is a set is present, one whose latest is a delete is absent, and
\* every run saved (and not cleaned up since) is there as last saved.
C24_NoLostUpdate ==
    (\A c \in StoreClients : ~FileBusy(c)) =>
        /\ \A k \in StoreKeys :
              /\ lastSet[k] = "set" => k \in fileDoc.keys
              /\ lastSet[k] = "delete" => k \notin fileDoc.keys
        /\ \A i \in RunIds :
              lastSaved[i] # << >> =>
                  FileGetPipelineRun(fileDoc.runs, i) = <<StoredForm(lastSaved[i][1])>>

\* Client c's getPipelineRun returns in this step
SqlReadReturns(c) ==
    /\ sqlOps[c].op = "getPipelineRun"
    /\ sqlOps[c].pc # "done"
    /\ sqlOps'[c].pc = "done"

\* No other operation was in progress at any time during client c's operation
SqlAlone(c) ==
    /\ ~sqlOps'[c].overlap
    /\ \A d \in StoreClients \ {c} : ~SqlBusy(d)

\* C25: a getPipelineRun that returns a run with the status of some save
\* returns exactly one task record per task of the run, each with the status
\* that same save wrote, also when it ran concurrently with the save.
C25_SaveAtomic ==
    \A c \in StoreClients :
        (sqlOps[c].op = "getPipelineRun" /\ sqlOps[c].pc = "done" /\ sqlOps[c].result # << >>) =>
            LET r == sqlOps[c].result[1]
                v == SqlRun(r.id, r.status)
            IN /\ { r.tasks[i].task.id : i \in DOMAIN r.tasks } = TaskIds
               /\ \A i \in DOMAIN r.tasks :
                      r.tasks[i].status = v.tasks[r.tasks[i].task.id].status

\* C26: after any number of completed saves of a run, a getPipelineRun of it
\* (with no other operation in progress) returns one run with exactly one
\* TaskExecution per task, carrying the status and attempts of the latest save.
C26_UpsertByRunAndTask ==
    [][\A c \in StoreClients :
          (SqlReadReturns(c) /\ SqlAlone(c) /\ sqlSaved[sqlOps[c].id] # << >>) =>
              /\ Len(sqlOps'[c].result) = 1
              /\ LET r == sqlOps'[c].result[1]
                     v == sqlSaved[sqlOps[c].id][1]
                 IN /\ r.status = v.status
                    /\ Len(r.tasks) = Len(v.tasks)
                    /\ \A t \in DOMAIN r.tasks :
                          t \in DOMAIN v.tasks =>
                              /\ r.tasks[t].task.id = v.tasks[t].task.id
                              /\ r.tasks[t].status = v.tasks[t].status
                              /\ r.tasks[t].attempts = v.tasks[t].attempts]_vars

\* C27: a getPipelineRun (with no other operation in progress) of a run that
\* was saved returns the run last saved, equal field by field with an absent
\* result staying absent, and returns null for an id that was never saved.
C27_RoundTrip ==
    [][\A c \in StoreClients :
          (SqlReadReturns(c) /\ SqlAlone(c)) =>
              IF sqlSaved[sqlOps[c].id] = << >>
              THEN sqlOps'[c].result = << >>
              ELSE sqlOps'[c].result = sqlSaved[sqlOps[c].id]]_vars

\* The day a timestamp denotes, whatever its encoding
DayOf(ts) == ts[2]

\* C28: a cleanupOldRuns(d) that ran with no other operation in progress
\* leaves every run younger than the cutoff (today minus d days) in the store,
\* removes every run older than it, and returns the number of runs removed.
C28_CleanupDeletesOld ==
    [][\A c \in StoreClients :
          (/\ fileOps[c].op = "cleanupOldRuns"
           /\ fileOps[c].pc # "done"
           /\ fileOps'[c].pc = "done"
           /\ ~fileOps'[c].overlap
           /\ \A d \in StoreClients \ {c} : ~FileBusy(d)) =>
              LET before == fileOps'[c].loaded
                  cutoff == Today - fileOps[c].n
                  gone == { i \in DOMAIN before : FindIndex(fileDoc'.runs, before[i].id) = 0 }
              IN /\ \A i \in DOMAIN before : DayOf(before[i].startedAt) > cutoff => i \notin gone
                 /\ \A i \in DOMAIN before : DayOf(before[i].startedAt) < cutoff => i \in gone
                 /\ fileOps'[c].result = <<Cardinality(gone)>>
                 /\ \A j \in DOMAIN fileDoc'.runs : DayOf(fileDoc'.runs[j].startedAt) >= cutoff]_vars

\* C29: getPipelineRuns(name, limit) does not fail and returns runs of that
\* pipeline only, newest first, min(limit, number of such runs) of them, none
\* of those left out being newer than one returned.
C29_ListsNewestFirst ==
    \A c \in StoreClients :
        (fileOps[c].op = "getPipelineRuns" /\ fileOps[c].pc = "done") =>
            LET r == fileOps[c].result[1]
                loaded == fileOps[c].loaded
                matching == { i \in DOMAIN loaded : loaded[i].pipelineName = fileOps[c].name }
            IN /\ r.threw = ""
               /\ \A i \in DOMAIN r.runs :
                      /\ r.runs[i].pipelineName = fileOps[c].name
                      /\ \E j \in matching : loaded[j] = r.runs[i]
               /\ \A i, j \in DOMAIN r.runs :
                      i < j => DayOf(r.runs[i].startedAt) >= DayOf(r.runs[j].startedAt)
               /\ Len(r.runs) = Min({fileOps[c].n, Cardinality(matching)})
               /\ \A j \in matching :
                      (\A i \in DOMAIN r.runs : r.runs[i] # loaded[j]) =>
                          \A i \in DOMAIN r.runs :
                              DayOf(loaded[j].startedAt) <= DayOf(r.runs[i].startedAt)

\* The ids a task of a parsed pipeline reaches through dependsOn
RECURSIVE ReachesIn(_, _, _)
ReachesIn(tasks, ids, n) ==
    IF n = 0 THEN ids
    ELSE ReachesIn(tasks,
                   ids \cup UNION { { tasks[i].dependsOn[k] : k \in DOMAIN tasks[i].dependsOn } :
                                      i \in { j \in DOMAIN tasks : tasks[j].id \in ids } },
                   n - 1)

\* C30: a pipeline that parse returns with an empty errors list has pairwise
\* distinct task ids, only dependsOn entries that name a task of the
\* pipeline, and no task that reaches itself through dependsOn.
C30_ParsedPipelineValid ==
    (parsed.outcome = "returned" /\ parsed.errors = {}) =>
        LET tasks == parsed.pipeline.tasks
            direct(i) == { tasks[i].dependsOn[k] : k \in DOMAIN tasks[i].dependsOn }
        IN /\ \A i, j \in DOMAIN tasks : tasks[i].id = tasks[j].id => i = j
           /\ \A i \in DOMAIN tasks : direct(i) \subseteq { tasks[j].id : j \in DOMAIN tasks }
           /\ \A i \in DOMAIN tasks :
                  tasks[i].id \notin ReachesIn(tasks, direct(i), Len(tasks))

C30_Witness ==
    /\ parsed.outcome = "returned"
    /\ parsed.errors = {}
    /\ Len(parsed.pipeline.tasks) = 3
    /\ Len(document.tasks) = 3
    /\ \E i \in DOMAIN document.tasks : document.tasks[i].id = Padded
    /\ \E i \in DOMAIN parsed.pipeline.tasks : parsed.pipeline.tasks[i].dependsOn # << >>

\* C31: parse of a readable document throws only when strict is on and the
\* errors list is non-empty; a parser constructed without options returns
\* the validation errors in errors and does not throw.
C31_ThrowsOnlyWhenStrict ==
    /\ parsed.outcome = "threw" => (parserOptions.strict /\ parsed.errors # {})
    /\ (parserOptions = DefaultParserOptions /\ parsed.outcome # "none") =>
           parsed.outcome = "returned"

\* C32: when parse returned a pipeline without errors, parsing the JSON
\* serialization of that pipeline returns a pipeline equal to it.
C32_RoundTrip ==
    (reparsed.outcome # "none" /\ parsed.errors = {}) =>
        (reparsed.outcome = "returned" /\ reparsed.pipeline = parsed.pipeline)

\* The sets of task ids that form a cycle of the dependency graph of a parsed
\* pipeline: the ids can be arranged in a ring in which every task depends on
\* the next (a single task that depends on itself included)
CycleSets(tasks) ==
    LET ids == { tasks[i].id : i \in DOMAIN tasks }
        direct(id) == { d \in ids : \E i \in DOMAIN tasks :
                          /\ tasks[i].id = id
                          /\ \E k \in DOMAIN tasks[i].dependsOn : tasks[i].dependsOn[k] = d }
    IN { S \in SUBSET ids \ { {} } :
           \E f \in [S -> S] :
              /\ \A s \in S : f[s] \in direct(s)
              /\ \A s, t \in S : f[s] = f[t] => s = t
              /\ \A T \in SUBSET S \ { {}, S } : \E s \in T : f[s] \notin T }

\* C34: the validator reports a circular dependency if and only if the
\* dependency graph of the pipeline's tasks has a cycle, and every cycle of
\* the graph, so each of several disjoint cycles, has a circular dependency
\* error that names one of its tasks.
C34_CycleDetectionExact ==
    parsed.outcome = "returned" =>
        LET cycles == CycleSets(parsed.pipeline.tasks)
            named == { parsed.circular[k] : k \in DOMAIN parsed.circular }
        IN /\ ("Circular dependency detected" \in parsed.errors) <=> (cycles # {})
           /\ (parsed.circular # << >>) <=> (cycles # {})
           /\ \A S \in cycles : named \cap S # {}

C34_Witness ==
    /\ parsed.outcome = "returned"
    /\ \E S, T \in CycleSets(parsed.pipeline.tasks) :
          /\ S \cap T = {}
          /\ Cardinality(S) = 1
          /\ Cardinality(T) = 2
    /\ Len(parsed.circular) = 2

\* C35: the validator reports multiple root tasks exactly when more than one
\* task of the pipeline has no dependencies and no dependents.
C35_MultipleRootExact ==
    parsed.outcome = "returned" =>
        LET tasks == parsed.pipeline.tasks
            isolated == { i \in DOMAIN tasks :
                            /\ tasks[i].dependsOn = << >>
                            /\ \A j \in DOMAIN tasks : \A k \in DOMAIN tasks[j].dependsOn :
                                   tasks[j].dependsOn[k] # tasks[i].id }
        IN ("Multiple root tasks found" \in parsed.errors) <=> (Cardinality(isolated) > 1)

C35_Witness ==
    /\ parsed.outcome = "returned"
    /\ "Multiple root tasks found" \in parsed.errors
    /\ Len(parsed.pipeline.tasks) = 3
    /\ \E i \in DOMAIN parsed.pipeline.tasks : parsed.pipeline.tasks[i].dependsOn # << >>

\* run.ts with executor.ts constructor: the limit of the executor that the
\* run command creates for a parsed pipeline (pipeline.concurrency || 5)
RunMaxConcurrency(concurrency) ==
    IF Truthy(concurrency) THEN concurrency ELSE Num(DefaultMaxConcurrency)

\* An optional pipeline field that is present with the wrong type or range
WrongDescription(v) == v # Undefined /\ TypeOf(v) # "string"
WrongConcurrency(v) == v # Undefined /\ (TypeOf(v) # "number" \/ LessThan(v, 1))
WrongTimeout(v) == v # Undefined /\ (TypeOf(v) # "number" \/ LessThan(v, 0))
WrongEnv(v) == v # Undefined /\ (TypeOf(v) # "object" \/ v.type \in {"array", "null"})

\* C36: an optional pipeline field of the wrong type or range produces a
\* warning and is absent from the returned pipeline; the run command's
\* executor then works with the default limit of 5.
C36_WrongOptionalDropped ==
    parsed.outcome = "returned" =>
        /\ WrongDescription(document.description) =>
               /\ "Pipeline description should be a string" \in parsed.warnings
               /\ parsed.pipeline.description = Undefined
        /\ WrongConcurrency(document.concurrency) =>
               /\ "Pipeline concurrency should be a positive number, using default"
                      \in parsed.warnings
               /\ parsed.pipeline.concurrency = Undefined
               /\ RunMaxConcurrency(parsed.pipeline.concurrency) = Num(DefaultMaxConcurrency)
        /\ WrongTimeout(document.timeout) =>
               /\ "Pipeline timeout should be a non-negative number, using default"
                      \in parsed.warnings
               /\ parsed.pipeline.timeout = Undefined
        /\ WrongEnv(document.env) =>
               /\ "Pipeline env should be an object, ignoring" \in parsed.warnings
               /\ parsed.pipeline.env = Undefined

\* The tasks whose executeTask call is in progress
RunningTasks == { t \in Tasks : runTasks[t].status = "running" }

\* C33: a retry attempt of a task starts executing only while fewer tasks
\* are running than the concurrency limit allows.
C33_RetryHonorsGate ==
    [][ \A t \in Tasks :
          (/\ t \in DOMAIN retryTimer /\ retryTimer[t]
           /\ t \in DOMAIN retryTimer' /\ ~retryTimer'[t]
           /\ runTasks'[t].status = "running")
          => Cardinality(RunningTasks) < options.maxConcurrency ]_vars

\* A pipeline the validator accepts: every dependency is a task of the
\* pipeline and no task depends on itself through dependsOn
AcceptedPipeline ==
    \A t \in Tasks :
        /\ pipeline.tasks[t].dependsOn \subseteq Tasks
        /\ t \notin Ancestors(t)

\* So far every plugin was found and every plugin call that settled returned
\* success = true in time: no task is failed, none was set back for a retry
EveryCallSucceeded ==
    \A t \in Tasks :
        /\ runTasks[t].status # "failed"
        /\ runTasks[t].attempts <= 1
        /\ ~retryTimer[t]

\* C37: executePipeline on an accepted pipeline returns in the end; if every
\* plugin call succeeded, the returned run has every enabled task invoked
\* once and success, and the run status success.
C37_TerminatesWithSuccess ==
    /\ ((pc = "save1" /\ AcceptedPipeline) ~> (pc = "returned"))
    /\ []((pc = "returned" /\ AcceptedPipeline /\ EveryCallSucceeded) =>
            /\ \A t \in Tasks :
                  pipeline.tasks[t].enabled =>
                      /\ runTasks[t].attempts = 1
                      /\ context[t].called
                      /\ runTasks[t].status = "success"
            /\ runStatus = "success")

\* The plugin.execute calls of task t that have not settled: the one
\* executeTask awaits and those whose timeout fired before they settled
CallsInFlight(t) == (IF invocation[t] = "plugin" THEN 1 ELSE 0) + orphans[t]

\* C38: at most one call of a task's plugin is in flight at any time, also
\* when the task is retried after a timeout.
C38_OneCallInFlight == \A t \in Tasks : CallsInFlight(t) <= 1

\* C39: once executePipeline has returned, no task record of the run changes
\* and no plugin of the run is loaded or called.
C39_ReturnedRunFinal ==
    [][pc = "returned" =>
          /\ runTasks' = runTasks
          /\ \A t \in Tasks :
                /\ ~PluginCalled(t)
                /\ (invocation'[t] = "load" => invocation[t] = "load")]_vars

\* A step in which a schedulePipeline call fails after it drew its job id:
\* no record was persisted under the id
ScheduleFails == nextJobId' # nextJobId /\ nextJobId \notin DOMAIN jobStore'

\* C40: a schedulePipeline call that fails leaves the jobs map and the
\* persisted scheduler:job:* records as they were before the call.
C40_ScheduleAllOrNothing ==
    [][ScheduleFails => (jobs' = jobs /\ jobStore' = jobStore)]_vars

====
